---- MODULE Spec2Model ----
(***************************************************************************)
(* A model of packling: the chunked XXTEA cipher of PAK blobs, the CRC-32  *)
(* and JAMCRC-32 checksums, the PAK header / assets-list layout, and the   *)
(* pack, unpack and decrypt-only flows over an abstract filesystem.        *)
(* Bytes are naturals 0..255, blobs are sequences of bytes, u32 values are *)
(* pairs << low 16 bits, high 16 bits >> with arithmetic modulo 2^32.      *)
(***************************************************************************)
EXTENDS Integers, Sequences, FiniteSets, TLC

\* ------------------------------------------------------------------------
\* 32-bit arithmetic
\* ------------------------------------------------------------------------

\* TLC's integers are 32-bit signed, so a u32 is kept as the pair
\* << low 16 bits, high 16 bits >> and every operation works on the halves.
H16 == 2 ^ 16

Pow2(n) == 2 ^ n

\* xor of two 4-bit values, bit by bit
Xor4 == [a \in 0..15 |-> [b \in 0..15 |->
          (((a % 2) + (b % 2)) % 2)
        + 2 * ((((a \div 2) % 2) + ((b \div 2) % 2)) % 2)
        + 4 * ((((a \div 4) % 2) + ((b \div 4) % 2)) % 2)
        + 8 * ((((a \div 8) % 2) + ((b \div 8) % 2)) % 2)]]

\* and of two 4-bit values, bit by bit
And4 == [a \in 0..15 |-> [b \in 0..15 |->
          ((a % 2) * (b % 2))
        + 2 * (((a \div 2) % 2) * ((b \div 2) % 2))
        + 4 * (((a \div 4) % 2) * ((b \div 4) % 2))
        + 8 * (((a \div 8) % 2) * ((b \div 8) % 2))]]

\* xor of two bytes
Xor8 == [a \in 0..255 |-> [b \in 0..255 |->
          16 * Xor4[a \div 16][b \div 16] + Xor4[a % 16][b % 16]]]

\* and of two bytes
And8(a, b) == 16 * And4[a \div 16][b \div 16] + And4[a % 16][b % 16]

\* xor of two 16-bit values
Xor16(a, b) == Xor8[a % 256][b % 256] + 256 * Xor8[a \div 256][b \div 256]

\* the u32 of a natural below 2^31 (a length, an offset, a size)
U32(n) == << n % H16, n \div H16 >>

\* the natural of a u32 below 2^31
Nat32(w) == w[1] + H16 * w[2]

\* a ^ b on u32
Xor32(a, b) == << Xor16(a[1], b[1]), Xor16(a[2], b[2]) >>

\* !a on u32
Not32(a) == << (H16 - 1) - a[1], (H16 - 1) - a[2] >>

\* a << n on u32, 0 < n < 16 (bits shifted out are lost)
Shl32(a, n) == << (a[1] * Pow2(n)) % H16,
                  ((a[2] * Pow2(n)) + ((a[1] * Pow2(n)) \div H16)) % H16 >>

\* a >> n on u32, 0 < n < 16
Shr32(a, n) == << (a[1] \div Pow2(n)) + (a[2] % Pow2(n)) * Pow2(16 - n),
                  a[2] \div Pow2(n) >>

\* wrapping add and sub on u32
Add32(a, b) == << (a[1] + b[1]) % H16,
                  (a[2] + b[2] + ((a[1] + b[1]) \div H16)) % H16 >>
Sub32(a, b) == Add32(a, Add32(Not32(b), << 1, 0 >>))

\* TLC passes the arguments of an operator unevaluated. In the loops below
\* the result of the first half is bound through a one-element set, which
\* evaluates it before the second half starts and keeps the evaluation depth
\* logarithmic in the length of the loop.

\* the sequence f with every element evaluated (TLC keeps [i \in S |-> e]
\* unevaluated until it is applied)
AsTuple(f) == SubSeq(f, 1, Len(f))

\* little-endian u32 <-> 4 bytes
LeBytes(w) == << w[1] % 256, w[1] \div 256, w[2] % 256, w[2] \div 256 >>
LeWord(b, i) == << b[i] + 256 * b[i + 1], b[i + 2] + 256 * b[i + 3] >>

\* ------------------------------------------------------------------------
\* XXTEA (the block cipher applied to each chunk), on sequences of u32 words
\* ------------------------------------------------------------------------

\* the XXTEA round constant (0x9E3779B9)
XXTEA_DELTA == << 31161, 40503 >>

\* number of mixing rounds for a block of n words
XxteaRounds(n) == 6 + (52 \div n)

\* the XXTEA mixing function MX; k is the key as 4 words, p is 0-based
XxteaMX(y, z, sum, k, p, e) ==
    Xor32(Add32(Xor32(Shr32(z, 5), Shl32(y, 2)), Xor32(Shr32(y, 3), Shl32(z, 4))),
          Add32(Xor32(sum, y), Xor32(k[Xor4[p % 4][e] + 1], z)))

\* one step of an encryption round: word p (0-based) of v is updated from
\* its right neighbour and the previously updated word z
XxteaEncStep(v, n, sum, k, p) ==
    LET z == v[((p + n - 1) % n) + 1]
        y == v[((p + 1) % n) + 1]
        e == (sum[1] \div 4) % 4
    IN  [v EXCEPT ![p + 1] = Add32(v[p + 1], XxteaMX(y, z, sum, k, p, e))]

\* steps lo..hi (ascending) of an encryption round
RECURSIVE XxteaEncRange(_, _, _, _, _, _)
XxteaEncRange(v, n, sum, k, lo, hi) ==
    IF lo > hi THEN v
    ELSE IF lo = hi THEN XxteaEncStep(v, n, sum, k, lo)
    ELSE CHOOSE res \in { XxteaEncRange(u, n, sum, k, ((lo + hi) \div 2) + 1, hi) :
                            u \in { XxteaEncRange(v, n, sum, k, lo, (lo + hi) \div 2) } } : TRUE

\* r * DELTA on u32, for a round number r (at most 58)
XxteaSum(r) ==
    << (r * XXTEA_DELTA[1]) % H16,
       (r * XXTEA_DELTA[2] + ((r * XXTEA_DELTA[1]) \div H16)) % H16 >>

\* rounds lo..hi (ascending) of the encryption, sum being r * DELTA in round r
RECURSIVE XxteaEncRounds(_, _, _, _, _)
XxteaEncRounds(v, n, k, lo, hi) ==
    IF lo > hi THEN v
    ELSE IF lo = hi THEN XxteaEncRange(v, n, XxteaSum(lo), k, 0, n - 1)
    ELSE CHOOSE res \in { XxteaEncRounds(u, n, k, ((lo + hi) \div 2) + 1, hi) :
                            u \in { XxteaEncRounds(v, n, k, lo, (lo + hi) \div 2) } } : TRUE

\* one step of a decryption round
XxteaDecStep(v, n, sum, k, p) ==
    LET z == v[((p + n - 1) % n) + 1]
        y == v[((p + 1) % n) + 1]
        e == (sum[1] \div 4) % 4
    IN  [v EXCEPT ![p + 1] = Sub32(v[p + 1], XxteaMX(y, z, sum, k, p, e))]

\* steps hi..lo (descending) of a decryption round
RECURSIVE XxteaDecRange(_, _, _, _, _, _)
XxteaDecRange(v, n, sum, k, lo, hi) ==
    IF lo > hi THEN v
    ELSE IF lo = hi THEN XxteaDecStep(v, n, sum, k, lo)
    ELSE CHOOSE res \in { XxteaDecRange(u, n, sum, k, lo, (lo + hi) \div 2) :
                            u \in { XxteaDecRange(v, n, sum, k, ((lo + hi) \div 2) + 1, hi) } } : TRUE

\* rounds hi..lo (descending) of the decryption, sum being r * DELTA in round r
RECURSIVE XxteaDecRounds(_, _, _, _, _)
XxteaDecRounds(v, n, k, lo, hi) ==
    IF lo > hi THEN v
    ELSE IF lo = hi THEN XxteaDecRange(v, n, XxteaSum(lo), k, 0, n - 1)
    ELSE CHOOSE res \in { XxteaDecRounds(u, n, k, lo, (lo + hi) \div 2) :
                            u \in { XxteaDecRounds(v, n, k, ((lo + hi) \div 2) + 1, hi) } } : TRUE

\* bytes (length a multiple of 4) <-> little-endian words
BytesToWords(b) == AsTuple([i \in 1..(Len(b) \div 4) |-> LeWord(b, 4 * i - 3)])
WordsToBytes(w) == AsTuple([i \in 1..(4 * Len(w)) |->
                              LeBytes(w[((i - 1) \div 4) + 1])[((i - 1) % 4) + 1]])

\* xxtea_nostd::encrypt(key, block) on the whole words of block; encrypt
\* never passes fewer than 2 words
XxteaEncrypt(key, block) ==
    LET n == Len(block) \div 4
    IN  IF n < 1 THEN block
        ELSE WordsToBytes(XxteaEncRounds(BytesToWords(block), n, BytesToWords(key),
                                         1, XxteaRounds(n)))

\* xxtea_nostd::decrypt(key, block)
XxteaDecrypt(key, block) ==
    LET n == Len(block) \div 4
    IN  IF n < 1 THEN block
        ELSE WordsToBytes(XxteaDecRounds(BytesToWords(block), n, BytesToWords(key),
                                         1, XxteaRounds(n)))

\* ------------------------------------------------------------------------
\* encryption.rs: per-chunk key generation and chunked encrypt / decrypt
\* ------------------------------------------------------------------------

\* size in bytes of an encryption chunk (0x2000)
XXTEA_CHUNK_SIZE == 8192

\* djb2::Djb2a: h = 5381; h = (h * 33) ^ byte, over u32
Djb2aByte(h, b) == Xor32(Add32(Shl32(h, 5), h), U32(b))

\* the hash after the bytes name[lo..hi]
RECURSIVE Djb2aRange(_, _, _, _)
Djb2aRange(h, name, lo, hi) ==
    IF lo > hi THEN h
    ELSE IF lo = hi THEN Djb2aByte(h, name[lo])
    ELSE CHOOSE res \in { Djb2aRange(g, name, ((lo + hi) \div 2) + 1, hi) :
                            g \in { Djb2aRange(h, name, lo, (lo + hi) \div 2) } } : TRUE

Djb2a(name) == Djb2aRange(U32(5381), name, 1, Len(name))

\* generate_key: every 4-byte word of the fixed key is ANDed with the mask
GenerateKey(name, length, chunk_offset, fixed_key) ==
    LET mask == Xor32(Xor32(U32(length), U32(chunk_offset)), Djb2a(name))
        mb   == LeBytes(mask)
    IN  AsTuple([i \in 1..16 |-> And8(fixed_key[i], mb[((i - 1) % 4) + 1])])

\* chunk_size = min(len - chunk_start, CHUNK) & !3
ChunkSize(len, chunk_start) ==
    LET m == IF len - chunk_start < XXTEA_CHUNK_SIZE THEN len - chunk_start
             ELSE XXTEA_CHUNK_SIZE
    IN  m - (m % 4)

\* data with the bytes at offsets start..start+Len(chunk)-1 (0-based) replaced
Splice(data, start, chunk) ==
    SubSeq(data, 1, start) \o chunk \o SubSeq(data, start + Len(chunk) + 1, Len(data))

\* the body of the loop of encrypt for the chunk at chunk_start, of usable
\* size cs: the chunk is encrypted in place under its own key
EncryptChunk(name, key, data, chunk_start, cs) ==
    Splice(data, chunk_start,
           XxteaEncrypt(GenerateKey(name, Len(data), chunk_start, key),
                        SubSeq(data, chunk_start + 1, chunk_start + cs)))

\* a mutant of EncryptExits: the test "< 4" that the comment in encrypt rejects
EncryptExitsLt4(chunk_size) == chunk_size < 4

\* a mutant of EncryptExits: the test is made on the size modulo the chunk
\* size, so that it also fires on a full chunk
EncryptExitsOnFullChunk(chunk_size) == chunk_size % XXTEA_CHUNK_SIZE <= 4

\* encrypt returns when the usable size of a chunk is <= 4
EncryptExits(chunk_size) == chunk_size <= 4

\* the loop of encrypt from chunk_start on
RECURSIVE EncryptFrom(_, _, _, _)
EncryptFrom(name, key, data, chunk_start) ==
    IF chunk_start >= Len(data) THEN data
    ELSE IF EncryptExits(ChunkSize(Len(data), chunk_start)) THEN data
    ELSE EncryptFrom(name, key,
                     EncryptChunk(name, key, data, chunk_start,
                                  ChunkSize(Len(data), chunk_start)),
                     chunk_start + XXTEA_CHUNK_SIZE)

\* encrypt(name, key, data)
Encrypt(name, key, data) == EncryptFrom(name, key, data, 0)

\* a mutant of DecryptChunk: the key is generated from the chunk's usable
\* size instead of the full length of the blob
DecryptChunkKeyFromChunkSize(name, key, data, chunk_start, cs) ==
    Splice(data, chunk_start,
           XxteaDecrypt(GenerateKey(name, cs, chunk_start, key),
                        SubSeq(data, chunk_start + 1, chunk_start + cs)))

\* the body of the loop of decrypt
DecryptChunk(name, key, data, chunk_start, cs) ==
    Splice(data, chunk_start,
           XxteaDecrypt(GenerateKey(name, Len(data), chunk_start, key),
                        SubSeq(data, chunk_start + 1, chunk_start + cs)))

\* decrypt returns when the usable size of a chunk is <= 4
DecryptExits(chunk_size) == chunk_size <= 4

\* the loop of decrypt from chunk_start on
RECURSIVE DecryptFrom(_, _, _, _)
DecryptFrom(name, key, data, chunk_start) ==
    IF chunk_start >= Len(data) THEN data
    ELSE IF DecryptExits(ChunkSize(Len(data), chunk_start)) THEN data
    ELSE DecryptFrom(name, key,
                     DecryptChunk(name, key, data, chunk_start,
                                  ChunkSize(Len(data), chunk_start)),
                     chunk_start + XXTEA_CHUNK_SIZE)

\* decrypt(name, key, data)
Decrypt(name, key, data) == DecryptFrom(name, key, data, 0)

\* the key and the name of the unit tests of encryption.rs: b"test"
TEST_KEY == << 166, 66, 178, 122, 225, 218, 158, 18, 206, 12, 97, 53, 215, 92, 237, 104 >>
NameTest == << 116, 101, 115, 116 >>

\* the name of the assets list blob for key generation: b"header"
ASSETS_LIST_NAME == << 104, 101, 97, 100, 101, 114 >>


\* ------------------------------------------------------------------------
\* crc32fast (CRC-32/ISO-HDLC) and jamcrc32.rs (the JAMCRC wrapper)
\* ------------------------------------------------------------------------

\* the reflected CRC-32 polynomial 0xEDB88320
CRC32_POLY == << 33568, 60856 >>

\* k shift-and-conditionally-xor steps of the CRC register
RECURSIVE CrcBits(_, _)
CrcBits(c, k) ==
    IF k = 0 THEN c
    ELSE CrcBits(IF c[1] % 2 = 1 THEN Xor32(Shr32(c, 1), CRC32_POLY) ELSE Shr32(c, 1),
                 k - 1)

\* the byte-wise lookup table of the CRC
Crc32Table == [b \in 0..255 |-> CrcBits(<< b, 0 >>, 8)]

\* the register after one more byte
CrcByte(reg, b) ==
    Xor32(Crc32Table[Xor8[reg[1] % 256][b]], Shr32(reg, 8))

\* the register after the bytes data[lo..hi]
RECURSIVE CrcRange(_, _, _, _)
CrcRange(reg, data, lo, hi) ==
    IF lo > hi THEN reg
    ELSE IF lo = hi THEN CrcByte(reg, data[lo])
    ELSE CHOOSE res \in { CrcRange(r, data, ((lo + hi) \div 2) + 1, hi) :
                            r \in { CrcRange(reg, data, lo, (lo + hi) \div 2) } } : TRUE

\* crc32fast::Hasher::new_with_initial(init): the state is the checksum so far
HasherNewWithInitial(init) == init

\* crc32fast::Hasher::update(buf): the register is the complement of the state
HasherUpdate(state, buf) == Not32(CrcRange(Not32(state), buf, 1, Len(buf)))

\* crc32fast::Hasher::finalize()
HasherFinalize(state) == state

\* a mutant of Crc32Hash: the final complement is undone
Crc32HashNoXorOut(buf) ==
    Not32(HasherFinalize(HasherUpdate(HasherNewWithInitial(<< 0, 0 >>), buf)))

\* crc32fast::hash(buf) == Hasher::new() -> update(buf) -> finalize()
Crc32Hash(buf) == HasherFinalize(HasherUpdate(HasherNewWithInitial(<< 0, 0 >>), buf))

\* a mutant of JamNewWithInitial: the seed is passed on without the bitflip
JamNewWithInitialNoFlip(init) == HasherNewWithInitial(init)

\* Jamcrc32Hasher::new_with_initial(init): note the bitflip
JamNewWithInitial(init) == HasherNewWithInitial(Not32(init))

\* Jamcrc32Hasher::update(buf)
JamUpdate(wrapped, buf) == HasherUpdate(wrapped, buf)

\* Jamcrc32Hasher::finalize(): note the bitflip
JamFinalize(wrapped) == Not32(HasherFinalize(wrapped))

\* the input of the unit test of jamcrc32.rs: b"123456789"
Digits9 == << 49, 50, 51, 52, 53, 54, 55, 56, 57 >>

\* ------------------------------------------------------------------------
\* std::path on a Unix host: paths are byte strings, '/' separates
\* ------------------------------------------------------------------------

\* b'/'
Sep == 47

\* the path segments "." and "..", and the root "/"
Dot == << 46 >>
DotDot == << 46, 46 >>
Root == << Sep >>

\* position of the first separator of p, 0 when there is none
FirstSep(p) ==
    IF \E i \in 1..Len(p) : p[i] = Sep
    THEN CHOOSE i \in 1..Len(p) : p[i] = Sep /\ \A j \in 1..(i - 1) : p[j] # Sep
    ELSE 0

\* p split at every separator (empty segments kept)
RECURSIVE Segments(_)
Segments(p) ==
    IF FirstSep(p) = 0 THEN << p >>
    ELSE << SubSeq(p, 1, FirstSep(p) - 1) >>
             \o Segments(SubSeq(p, FirstSep(p) + 1, Len(p)))

\* segments joined by '/': what pack does with the components of a path
RECURSIVE JoinSlash(_)
JoinSlash(segs) ==
    IF segs = << >> THEN << >>
    ELSE IF Len(segs) = 1 THEN segs[1]
    ELSE segs[1] \o << Sep >> \o JoinSlash(Tail(segs))

\* Path::is_absolute / has_root
IsAbsolute(p) == Len(p) > 0 /\ p[1] = Sep

\* a segment that Components skips inside a path: empty (a repeated or
\* trailing separator) or "."
IsSkip(s) == s = << >> \/ s = Dot

\* Path::components(): the root if any, a leading "." of a relative path,
\* then the segments that are neither empty nor "."; ".." is a component
\* of its own (Component::ParentDir)
Components(p) ==
    (IF IsAbsolute(p) THEN << Root >>
     ELSE IF Segments(p)[1] = Dot THEN << Dot >>
     ELSE << >>)
    \o SelectSeq(Segments(p), LAMBDA s : ~IsSkip(s))

\* PathBuf equality and hashing go by components
PathEq(a, b) == Components(a) = Components(b)

\* asset_path.components().any(|c| c == Component::ParentDir)
HasParentDir(p) == \E i \in 1..Len(Components(p)) : Components(p)[i] = DotDot

\* Path::join(base, p): an absolute p replaces base
PathJoin(base, p) ==
    IF IsAbsolute(p) THEN p
    ELSE IF base = << >> \/ base[Len(base)] = Sep THEN base \o p
    ELSE base \o << Sep >> \o p

\* Components::trim_left / trim_right on the segments still to be read
RECURSIVE TrimLeft(_)
TrimLeft(segs) ==
    IF segs # << >> /\ IsSkip(Head(segs)) THEN TrimLeft(Tail(segs)) ELSE segs

RECURSIVE TrimRight(_)
TrimRight(segs) ==
    IF segs # << >> /\ IsSkip(segs[Len(segs)])
    THEN TrimRight(SubSeq(segs, 1, Len(segs) - 1)) ELSE segs

\* the segments left after Components::next() was called k times
RECURSIVE DropComponents(_, _)
DropComponents(segs, k) ==
    IF k = 0 \/ TrimLeft(segs) = << >> THEN segs
    ELSE DropComponents(Tail(TrimLeft(segs)), k - 1)

\* Path::starts_with(base), by components
HasPrefix(p, base) ==
    /\ Len(Components(base)) <= Len(Components(p))
    /\ SubSeq(Components(p), 1, Len(Components(base))) = Components(base)

\* Path::strip_prefix(base) of a relative p that starts with base: the rest
\* of the ORIGINAL string (Components::as_path), trimmed at both ends only;
\* separators repeated inside it and "." segments inside it stay
StripPrefix(p, base) ==
    JoinSlash(TrimRight(TrimLeft(DropComponents(Segments(p), Len(Components(base))))))

\* Path::parent(): the path without its last component
Parent(p) ==
    IF Components(p) = << >> \/ Components(p) = << Root >> THEN << >>
    ELSE SubSeq(Components(p), 1, Len(Components(p)) - 1)

\* byte strings in lexicographic order (the order of OsStr)
BytesLess(a, b) ==
    \/ Len(a) < Len(b) /\ SubSeq(b, 1, Len(a)) = a
    \/ \E i \in 1..Len(a) :
         /\ i <= Len(b) /\ a[i] < b[i]
         /\ SubSeq(a, 1, i - 1) = SubSeq(b, 1, i - 1)

\* walkdir's sort_by_file_name visits a directory's entries by file name,
\* a subdirectory's content right after the subdirectory: paths come out
\* in lexicographic order of their component lists
WalkLess(x, y) ==
    \/ Len(x) < Len(y) /\ SubSeq(y, 1, Len(x)) = x
    \/ \E i \in 1..Len(x) :
         /\ i <= Len(y) /\ BytesLess(x[i], y[i])
         /\ SubSeq(x, 1, i - 1) = SubSeq(y, 1, i - 1)

\* ------------------------------------------------------------------------
\* lz4_flex::block: the LZ4 block format (no size prefix)
\* ------------------------------------------------------------------------

\* a match is at least 4 bytes long, starts at least 12 bytes before the end
\* of the input and ends at least 5 bytes before it; an input shorter than
\* 13 bytes is stored as literals only
LZ4_MINMATCH == 4
LZ4_MFLIMIT == 12
LZ4_LAST_LITERALS == 5
LZ4_MIN_LENGTH == 13

\* the bytes that extend a length nibble of 15: 255 ... 255, rest
Lz4LenBytes(rest) ==
    AsTuple([i \in 1..((rest \div 255) + 1) |->
                IF i <= rest \div 255 THEN 255 ELSE rest % 255])

\* one sequence: token, literal length, literals, then (when mlen > 0) the
\* offset and the match length; mlen = 0 is the last sequence of a block
Lz4Sequence(lits, offset, mlen) ==
    << 16 * (IF Len(lits) < 15 THEN Len(lits) ELSE 15)
       + (IF mlen = 0 THEN 0
          ELSE IF mlen - LZ4_MINMATCH < 15 THEN mlen - LZ4_MINMATCH ELSE 15) >>
    \o (IF Len(lits) >= 15 THEN Lz4LenBytes(Len(lits) - 15) ELSE << >>)
    \o lits
    \o (IF mlen = 0 THEN << >>
        ELSE << offset % 256, offset \div 256 >>
             \o (IF mlen - LZ4_MINMATCH >= 15
                 THEN Lz4LenBytes(mlen - LZ4_MINMATCH - 15) ELSE << >>))

\* the earlier positions whose 4 bytes equal the 4 bytes at c (1-based)
Lz4Candidates(inp, c) ==
    { k \in 1..(c - 1) : SubSeq(inp, k, k + 3) = SubSeq(inp, c, c + 3) }

\* the first position at or after cur where a match may start and a
\* candidate exists; 0 when the search reaches the end
Lz4NextMatch(inp, cur) ==
    IF \E c \in cur..(Len(inp) - LZ4_MFLIMIT + 1) : Lz4Candidates(inp, c) # {}
    THEN CHOOSE c \in cur..(Len(inp) - LZ4_MFLIMIT + 1) :
           /\ Lz4Candidates(inp, c) # {}
           /\ \A d \in cur..(c - 1) : Lz4Candidates(inp, d) = {}
    ELSE 0

\* the most recent candidate for position c
Lz4Candidate(inp, c) ==
    CHOOSE k \in Lz4Candidates(inp, c) : \A j \in Lz4Candidates(inp, c) : j <= k

\* the length of the match of position c against candidate k
Lz4MatchLen(inp, k, c) ==
    CHOOSE m \in LZ4_MINMATCH..(Len(inp) - LZ4_LAST_LITERALS - (c - 1)) :
      /\ \A j \in LZ4_MINMATCH..(m - 1) : inp[k + j] = inp[c + j]
      /\ \/ m = Len(inp) - LZ4_LAST_LITERALS - (c - 1)
         \/ inp[k + m] # inp[c + m]

\* the sequences from position cur on, the literals pending from anchor
RECURSIVE Lz4CompressFrom(_, _, _)
Lz4CompressFrom(inp, anchor, cur) ==
    IF Lz4NextMatch(inp, cur) = 0
    THEN Lz4Sequence(SubSeq(inp, anchor, Len(inp)), 0, 0)
    ELSE LET c == Lz4NextMatch(inp, cur)
             k == Lz4Candidate(inp, c)
             m == Lz4MatchLen(inp, k, c)
         IN Lz4Sequence(SubSeq(inp, anchor, c - 1), c - k, m)
              \o Lz4CompressFrom(inp, c + m, c + m)

\* lz4_flex::block::compress(input)
Lz4Compress(inp) ==
    IF Len(inp) < LZ4_MIN_LENGTH THEN Lz4Sequence(inp, 0, 0)
    ELSE Lz4CompressFrom(inp, 1, 1)

\* a length nibble read at pos (the next unread byte, 1-based) with its
\* extension bytes: << ok, length, next pos >>
RECURSIVE Lz4ReadLen(_, _, _)
Lz4ReadLen(inp, pos, acc) ==
    IF pos > Len(inp) THEN << FALSE, acc, pos >>
    ELSE IF inp[pos] = 255 THEN Lz4ReadLen(inp, pos + 1, acc + 255)
    ELSE << TRUE, acc + inp[pos], pos + 1 >>

Lz4Length(inp, pos, nibble) ==
    IF nibble = 15 THEN Lz4ReadLen(inp, pos, 15) ELSE << TRUE, nibble, pos >>

\* out followed by mlen bytes copied from offset bytes back, one by one
\* (the copy may overlap what it writes)
Lz4CopyMatch(out, offset, mlen) ==
    AsTuple([i \in 1..(Len(out) + mlen) |->
                IF i <= Len(out) THEN out[i]
                ELSE out[Len(out) - offset + 1 + ((i - Len(out) - 1) % offset)]])

Lz4Error == [ok |-> FALSE, data |-> << >>]

\* the sequences of inp from pos on, decoded after out; cap is the size of
\* the output buffer
RECURSIVE Lz4DecompressFrom(_, _, _, _)
Lz4DecompressFrom(inp, pos, out, cap) ==
    IF pos > Len(inp) THEN Lz4Error
    ELSE LET lit == Lz4Length(inp, pos + 1, inp[pos] \div 16)
             lend == lit[3] + lit[2]
             mpos == lend + 2
             mat == Lz4Length(inp, mpos, inp[pos] % 16)
             offset == inp[lend] + 256 * inp[lend + 1]
             out1 == out \o SubSeq(inp, lit[3], lend - 1)
         IN IF ~lit[1] \/ lend - 1 > Len(inp) \/ Len(out) + lit[2] > cap
            THEN Lz4Error
            ELSE IF lend > Len(inp) THEN [ok |-> TRUE, data |-> out1]
            ELSE IF lend + 1 > Len(inp) \/ ~mat[1] THEN Lz4Error
            ELSE IF offset = 0 \/ offset > Len(out1) THEN Lz4Error
            ELSE IF Len(out1) + LZ4_MINMATCH + mat[2] > cap THEN Lz4Error
            ELSE Lz4DecompressFrom(inp, mat[3],
                     Lz4CopyMatch(out1, offset, LZ4_MINMATCH + mat[2]), cap)

\* lz4_flex::block::decompress(input, min_uncompressed_size)
Lz4Decompress(inp, size) == Lz4DecompressFrom(inp, 1, << >>, size)

\* ------------------------------------------------------------------------
\* shared.rs: the layout of the PAK header and of the assets list
\* ------------------------------------------------------------------------

\* the size of PakHeader, the offset of its crc32 field, the offset at which
\* the calculation of that crc32 begins, the version of every known PAK
PAK_HEADER_SIZE == 40
PAK_CRC32_OFFSET == 8

\* the offset of assets_list_size_decompressed: the magic, three fields of
\* 4, 4 and 1 bytes, the 8 bytes of the timestamp, and one byte back
SizesOffset == 4 + 4 + 4 + 1 + 8 - 1

\* a mutant of PAK_CRC32_START_OFFSET: the offset after the two index sizes
PAK_CRC32_START_OFFSET_AFTER_SIZES == SizesOffset + 8

PAK_CRC32_START_OFFSET == 20
FILE_VERSION == 103

\* magic = b"KCAP"
PAK_MAGIC == << 75, 67, 65, 80 >>

\* n zero bytes
Zeros(n) == AsTuple([i \in 1..n |-> 0])

\* a write of bytes at offset pos (0-based, at most the length) of a file
\* or buffer: it overwrites, and extends at the end
WriteAt(data, pos, bytes) ==
    SubSeq(data, 1, pos) \o bytes \o SubSeq(data, pos + Len(bytes) + 1, Len(data))

\* a mutant of U56ToI64: the branch of the positive values only
U56ToI64Positive(b) == [b EXCEPT ![8] = 0]

\* u56_to_i64 on the 8 little-endian bytes read at 0x0d: the top byte is
\* replaced by the sign extension of bit 55
U56ToI64(b) == [b EXCEPT ![8] = IF b[7] >= 128 THEN 255 ELSE 0]

\* #[bw(calc = ...)] _field_1c
CalcField0x1c(assets_list_size_compressed) ==
    Xor32(Djb2a(ASSETS_LIST_NAME), assets_list_size_compressed)

\* PakHeader::write: the 8 bytes of the timestamp are written at 0x0d, the
\* writer seeks back by one, and the fields from 0x14 on follow, the first
\* of them over the top byte of the timestamp
SerHeader(h) ==
    WriteAt(PAK_MAGIC \o LeBytes(h.version) \o LeBytes(h.crc32)
              \o << h.unk0c >> \o h.timestamp,
            SizesOffset,
            LeBytes(h.assets_list_size_decompressed)
              \o LeBytes(h.assets_list_size_compressed)
              \o LeBytes(CalcField0x1c(h.assets_list_size_compressed))
              \o LeBytes(h.plaintext_crc32) \o LeBytes(h.ciphertext_crc32))

\* a mutant of HeaderReadable: the magic is read and not compared
HeaderReadableAnyMagic(data) == Len(data) >= PAK_HEADER_SIZE

\* PakHeader::read on the start of a file: fails on a short file and on a
\* wrong magic
HeaderReadable(data) ==
    Len(data) >= PAK_HEADER_SIZE /\ SubSeq(data, 1, 4) = PAK_MAGIC

ParseHeader(data) ==
    [version |-> LeWord(data, 5),
     crc32 |-> LeWord(data, 9),
     unk0c |-> data[13],
     timestamp |-> U56ToI64(SubSeq(data, 14, 21)),
     assets_list_size_decompressed |-> LeWord(data, 21),
     assets_list_size_compressed |-> LeWord(data, 25),
     plaintext_crc32 |-> LeWord(data, 33),
     ciphertext_crc32 |-> LeWord(data, 37)]

\* name.ends_with(b".alf")
EndsWithAlf(name) ==
    Len(name) >= 4 /\ SubSeq(name, Len(name) - 3, Len(name)) = << 46, 97, 108, 102 >>

\* calc_field_0x0c: size >= 0xa00000 or an .alf name
CalcField0x0c(name, size) ==
    IF size[2] >= 160 \/ EndsWithAlf(name) THEN << 2, 0 >> ELSE << 0, 0 >>

\* calc_field_0x10
CalcField0x10(name, size_compressed) ==
    IF size_compressed = << 0, 0 >> THEN << 0, 0 >>
    ELSE Xor32(Djb2a(name), size_compressed)

\* PakAsset::write
SerAsset(a) ==
    LeBytes(U32(Len(a.name))) \o a.name
    \o LeBytes(a.size_decompressed) \o LeBytes(a.size_compressed)
    \o LeBytes(a.offset)
    \o LeBytes(CalcField0x0c(a.name, a.size_compressed))
    \o LeBytes(CalcField0x10(a.name, a.size_compressed))
    \o LeBytes(a.plaintext_crc32) \o LeBytes(a.ciphertext_crc32)

RECURSIVE SerAssetsFrom(_, _)
SerAssetsFrom(contents, i) ==
    IF i > Len(contents) THEN << >>
    ELSE SerAsset(contents[i]) \o SerAssetsFrom(contents, i + 1)

\* PakAssets::write: the count, then every entry
SerAssets(contents) == LeBytes(U32(Len(contents))) \o SerAssetsFrom(contents, 1)

\* a u32 that is a length the reader can still satisfy from pos (1-based,
\* the next unread byte) of data
Available(data, pos, len) == len[2] = 0 /\ pos + len[1] - 1 <= Len(data)

\* a mutant of ParseAsset: offset is taken from the word after it, _field_0c
ParseAssetOffsetFromField0c(data, pos) ==
    LET n == LeWord(data, pos)[1]
        q == pos + 4 + n
    IN [name |-> SubSeq(data, pos + 4, q - 1),
        size_decompressed |-> LeWord(data, q),
        size_compressed |-> LeWord(data, q + 4),
        offset |-> LeWord(data, q + 12),
        plaintext_crc32 |-> LeWord(data, q + 20),
        ciphertext_crc32 |-> LeWord(data, q + 24)]

\* PakAsset::read at pos, the name being Available
ParseAsset(data, pos) ==
    LET n == LeWord(data, pos)[1]
        q == pos + 4 + n
    IN [name |-> SubSeq(data, pos + 4, q - 1),
        size_decompressed |-> LeWord(data, q),
        size_compressed |-> LeWord(data, q + 4),
        offset |-> LeWord(data, q + 8),
        plaintext_crc32 |-> LeWord(data, q + 20),
        ciphertext_crc32 |-> LeWord(data, q + 24)]

\* the entries still to be read (count of them) from pos on, after acc;
\* a read past the end of the data is an error
RECURSIVE ParseAssetsFrom(_, _, _, _)
ParseAssetsFrom(data, pos, count, acc) ==
    IF count = << 0, 0 >> THEN [ok |-> TRUE, contents |-> acc]
    ELSE IF pos + 3 > Len(data) THEN [ok |-> FALSE, contents |-> acc]
    ELSE IF ~Available(data, pos + 4, LeWord(data, pos))
         THEN [ok |-> FALSE, contents |-> acc]
    ELSE IF pos + 4 + LeWord(data, pos)[1] + 27 > Len(data)
         THEN [ok |-> FALSE, contents |-> acc]
    ELSE ParseAssetsFrom(data, pos + 32 + LeWord(data, pos)[1],
                         Sub32(count, << 1, 0 >>),
                         Append(acc, ParseAsset(data, pos)))

\* PakAssets::read
ParseAssets(data) ==
    IF Len(data) < 4 THEN [ok |-> FALSE, contents |-> << >>]
    ELSE ParseAssetsFrom(data, 5, LeWord(data, 1), << >>)

\* ------------------------------------------------------------------------
\* State
\* ------------------------------------------------------------------------

VARIABLES
    \* the cipher on one blob: name, key, the plaintext, the buffer that
    \* encrypt / decrypt change in place, the ciphertext once produced
    c_name, c_key, c_plain, c_buf, c_enc, c_stage,
    \* one Jamcrc32Hasher: its seed, the data to feed, how much was fed,
    \* the wrapped crc32fast state, the finalized value
    h_seed, h_data, h_pos, h_updates, h_wrapped, h_result, h_stage,
    \* the host filesystem: the files of the input folder (name -> content),
    \* the PAK file, the files and directories at and around the output
    \* folder, the order file that unpack writes
    in_files, pak, disk, order_out,
    \* one run of pack: its arguments, where it stands, its local variables
    p_args, p_stage, pk,
    \* one run of unpack: its arguments, where it stands, its local variables
    u_args, u_stage, un,
    \* a second run of unpack on a container that differs from the first in
    \* fields that unpack does not use, and the outcome of the first run
    twin,
    \* one run of the decrypt-only flow: its arguments, where it stands, its
    \* local variables, and the file at the output path when that is not the
    \* input path (pak is the file at the input path)
    d_args, d_stage, dc, out_pak

cipherVars == << c_name, c_key, c_plain, c_buf, c_enc, c_stage >>
hasherVars == << h_seed, h_data, h_pos, h_updates, h_wrapped, h_result, h_stage >>
decryptVars == << d_args, d_stage, dc, out_pak >>
flowVars ==
    << in_files, pak, disk, order_out, p_args, p_stage, pk, u_args, u_stage, un,
       twin, decryptVars >>
vars == << cipherVars, hasherVars, flowVars >>

\* the parts of the state a specification does not use
CipherIdle ==
    /\ c_name = << >> /\ c_key = TEST_KEY /\ c_plain = << >>
    /\ c_buf = << >> /\ c_enc = << >> /\ c_stage = "idle"

HasherIdle ==
    /\ h_seed = << 0, 0 >> /\ h_data = << >> /\ h_pos = 0 /\ h_updates = 0
    /\ h_wrapped = << 0, 0 >> /\ h_result = << 0, 0 >> /\ h_stage = "idle"

TwinIdle == twin = [stage |-> "none"]

DecryptIdle ==
    /\ d_args = << >> /\ d_stage = "none" /\ dc = << >> /\ out_pak = << >>

FlowIdle ==
    /\ in_files = << >> /\ pak = << >> /\ disk = << >> /\ order_out = << >>
    /\ p_args = << >> /\ p_stage = "none" /\ pk = << >>
    /\ u_args = << >> /\ u_stage = "none" /\ un = << >>
    /\ TwinIdle
    /\ DecryptIdle

\* ------------------------------------------------------------------------
\* The cipher on a blob: encrypt, then decrypt (or decrypt alone)
\* ------------------------------------------------------------------------

\* longest of the short blobs
MaxSmallLen == 11

\* lengths of one full 0x2000-byte chunk and 0..7 bytes more, and lengths
\* that reach into a second and a third chunk
BigLens ==
    { XXTEA_CHUNK_SIZE, XXTEA_CHUNK_SIZE + 3, XXTEA_CHUNK_SIZE + 4,
      XXTEA_CHUNK_SIZE + 7, XXTEA_CHUNK_SIZE + 8, 2 * XXTEA_CHUNK_SIZE + 11 }

\* b"1234567890123...", the inputs of the unit tests of encryption.rs
DigitsBlob(n) == AsTuple([i \in 1..n |-> 48 + (i % 10)])

\* another blob of each length
PatternBlob(n) == AsTuple([i \in 1..n |-> (i * 7 + 3) % 256])

\* a second key: every bit set, so the chunk key is the mask itself
KeyOnes == AsTuple([i \in 1..16 |-> 255])

CipherNames == { NameTest, ASSETS_LIST_NAME }
CipherKeys == { TEST_KEY, KeyOnes }
SmallBlobs == { DigitsBlob(n) : n \in 0..MaxSmallLen } \cup { PatternBlob(n) : n \in 0..MaxSmallLen }
BigBlobs == { PatternBlob(n) : n \in BigLens }

CipherInit ==
    /\ \/ c_name \in CipherNames /\ c_key \in CipherKeys /\ c_plain \in SmallBlobs
       \/ c_name = NameTest /\ c_key = TEST_KEY /\ c_plain \in BigBlobs
    /\ c_buf = c_plain
    /\ c_enc = << >>
    /\ c_stage = "plain"
    /\ HasherIdle
    /\ FlowIdle

\* encrypt(name, key, &mut buf)
CipherEncrypt ==
    /\ c_stage = "plain"
    /\ c_buf' = Encrypt(c_name, c_key, c_buf)
    /\ c_enc' = c_buf'
    /\ c_stage' = "encrypted"
    /\ UNCHANGED << c_name, c_key, c_plain, hasherVars, flowVars >>

\* decrypt(name, key, &mut buf) on the ciphertext
CipherDecrypt ==
    /\ c_stage = "encrypted"
    /\ c_buf' = Decrypt(c_name, c_key, c_buf)
    /\ c_stage' = "decrypted"
    /\ UNCHANGED << c_name, c_key, c_plain, c_enc, hasherVars, flowVars >>

\* decrypt(name, key, &mut buf) on a blob that was never encrypted
CipherDecryptPlain ==
    /\ c_stage = "plain"
    /\ c_buf' = Decrypt(c_name, c_key, c_buf)
    /\ c_stage' = "decrypted_plain"
    /\ UNCHANGED << c_name, c_key, c_plain, c_enc, hasherVars, flowVars >>

CipherNext == CipherEncrypt \/ CipherDecrypt \/ CipherDecryptPlain

SpecCipher == CipherInit /\ [][CipherNext]_vars

\* ------------------------------------------------------------------------
\* One Jamcrc32Hasher: new_with_initial, update*, finalize
\* ------------------------------------------------------------------------

\* the seeds of the unit test of jamcrc32.rs: 0, 0xffff_ffff, 0x1234
JamSeeds == { << 0, 0 >>, << 65535, 65535 >>, << 4660, 0 >> }

\* longest input besides b"123456789"
MaxCrcLen == 5

\* most calls of update on one hasher
MaxUpdates == 3

CrcInputs == { Digits9 } \cup { PatternBlob(n) : n \in 0..MaxCrcLen }

HasherInit ==
    /\ h_seed \in JamSeeds
    /\ h_data \in CrcInputs
    /\ h_pos = 0
    /\ h_updates = 0
    /\ h_wrapped = JamNewWithInitial(h_seed)
    /\ h_result = << 0, 0 >>
    /\ h_stage = "updating"
    /\ CipherIdle
    /\ FlowIdle

\* hasher.update(&data[pos..pos + n]), the next n bytes (n may be 0)
HasherUpdateStep ==
    /\ h_stage = "updating"
    /\ h_updates < MaxUpdates
    /\ \E n \in 0..(Len(h_data) - h_pos) :
         /\ h_wrapped' = JamUpdate(h_wrapped, SubSeq(h_data, h_pos + 1, h_pos + n))
         /\ h_pos' = h_pos + n
    /\ h_updates' = h_updates + 1
    /\ UNCHANGED << h_seed, h_data, h_result, h_stage, cipherVars, flowVars >>

\* hasher.finalize()
HasherFinalizeStep ==
    /\ h_stage = "updating"
    /\ h_result' = JamFinalize(h_wrapped)
    /\ h_stage' = "final"
    /\ UNCHANGED << h_seed, h_data, h_pos, h_updates, h_wrapped, cipherVars, flowVars >>

HasherNext == HasherUpdateStep \/ HasherFinalizeStep

SpecCrc == HasherInit /\ [][HasherNext]_vars

\* ------------------------------------------------------------------------
\* flow_pack.rs: pack and fix_header_crc32
\* ------------------------------------------------------------------------

\* size of the read buffer of fix_header_crc32
CRC32_DATA_BUFFER_SIZE == 8 * 1024

\* input_folder, a folder of the working directory: "in"
INPUT_FOLDER == << 105, 110 >>

\* the components of the files and of the directories of the input folder,
\* seen from the working directory (<< >>)
HostFile(name) == Components(INPUT_FOLDER) \o Components(name)
HostFiles == { HostFile(n) : n \in DOMAIN in_files }
HostDirs ==
    { << >>, Components(INPUT_FOLDER) }
    \cup UNION { { SubSeq(f, 1, k) : k \in 0..(Len(f) - 1) } : f \in HostFiles }

\* what the host resolves the components comps to, starting in directory
\* cur: ".." steps up, a name is looked up in a directory only
Unresolved == << << >> >>
RECURSIVE Resolve(_, _)
Resolve(cur, comps) ==
    IF comps = << >> THEN cur
    ELSE IF cur \notin HostDirs THEN Unresolved
    ELSE IF Head(comps) = Dot THEN Resolve(cur, Tail(comps))
    ELSE IF Head(comps) = DotDot
         THEN IF cur = << >> THEN Unresolved
              ELSE Resolve(SubSeq(cur, 1, Len(cur) - 1), Tail(comps))
    ELSE Resolve(Append(cur, Head(comps)), Tail(comps))

\* Path::is_file and std::fs::read on a relative path of the host
IsFile(p) == ~IsAbsolute(p) /\ Resolve(<< >>, Components(p)) \in HostFiles
ReadFile(p) ==
    in_files[CHOOSE n \in DOMAIN in_files : HostFile(n) = Resolve(<< >>, Components(p))]

\* the files of the input folder in the order of
\* WalkDir::new(input_folder).sort_by_file_name()
WalkOrder ==
    AsTuple([i \in 1..Cardinality(DOMAIN in_files) |->
        CHOOSE n \in DOMAIN in_files :
          Cardinality({ o \in DOMAIN in_files :
                          WalkLess(Components(o), Components(n)) }) = i - 1])

\* the lines of the order file that name a file: input_folder.join(line)
OrderedPaths(lines) ==
    SelectSeq(AsTuple([i \in 1..Len(lines) |-> PathJoin(INPUT_FOLDER, lines[i])]),
              LAMBDA q : IsFile(q))

\* the walked files that file_paths_set does not contain
WalkedPaths(set) ==
    SelectSeq(AsTuple([i \in 1..Len(WalkOrder) |-> PathJoin(INPUT_FOLDER, WalkOrder[i])]),
              LAMBDA q : ~\E s \in set : PathEq(s, q))

\* file_paths_vec: first the order file, then everything else
GatherPaths(order_file) ==
    LET first == IF order_file.given THEN OrderedPaths(order_file.lines) ELSE << >>
    IN first \o WalkedPaths({ first[i] : i \in 1..Len(first) })

\* assets_list_bytes_len: 4, and 0x20 + path_within_pak.as_os_str().len()
\* for every path
RECURSIVE AssetsListBytesLen(_, _)
AssetsListBytesLen(paths, i) ==
    IF i > Len(paths) THEN 4
    ELSE 32 + Len(StripPrefix(paths[i], INPUT_FOLDER)) + AssetsListBytesLen(paths, i + 1)

\* asset_name_bytes: the components of path_within_pak joined by '/'
AssetName(path_on_host) ==
    JoinSlash(Components(StripPrefix(path_on_host, INPUT_FOLDER)))

\* a mutant of KeepCompressed: a compressed form of the same length is kept
KeepCompressedLe(compressed_len, raw_len) == compressed_len <= raw_len

\* only use the compressed version if it's actually smaller
KeepCompressed(compressed_len, raw_len) == compressed_len < raw_len

\* the payload as stored (before encryption)
MaybeCompress(asset_data, compress_files) ==
    IF compress_files /\ KeepCompressed(Len(Lz4Compress(asset_data)), Len(asset_data))
    THEN Lz4Compress(asset_data)
    ELSE asset_data

\* the local variables of pack before it starts
PkInit ==
    [file_paths_vec |-> << >>, next |-> 1, assets_list |-> << >>, stored |-> << >>,
     assets_data_offset |-> 0, assets_list_bytes_len |-> 0, total_file_size |-> 0,
     reader_pos |-> 0, hasher |-> << 0, 0 >>, error |-> "none"]

PackFail(why) ==
    /\ p_stage' = "failed"
    /\ pk' = [pk EXCEPT !.error = why]

\* a mutant of CrcSeed: the length of the data that is checksummed
CrcSeedOfRange(total_file_size) == U32(total_file_size - PAK_CRC32_START_OFFSET)

\* the seed of the hasher of fix_header_crc32: total_file_size as u32
CrcSeed(total_file_size) == U32(total_file_size)

\* pack, up to the space reserved for the header: the paths are gathered,
\* the size of the assets list is calculated, the output file is opened
\* (created, or truncated with force) and zeroes are written
PackStart ==
    /\ p_stage = "start"
    /\ LET paths == GatherPaths(p_args.order_file)
           len == AssetsListBytesLen(paths, 1)
       IN IF \E i \in 1..Len(paths) : ~HasPrefix(paths[i], INPUT_FOLDER)
          THEN PackFail("strip_prefix") /\ UNCHANGED pak
          ELSE IF pak.exists /\ ~p_args.force
          THEN PackFail("output file exists") /\ UNCHANGED pak
          ELSE /\ pak' = [exists |-> TRUE, data |-> Zeros(PAK_HEADER_SIZE + len)]
               /\ pk' = [pk EXCEPT !.file_paths_vec = paths,
                                   !.assets_list_bytes_len = len]
               /\ p_stage' = "assets"
    /\ UNCHANGED << twin, decryptVars, cipherVars, hasherVars, in_files, disk, order_out, p_args,
                    u_args, u_stage, un >>

\* one turn of the loop over file_paths_vec: the file is read, compressed
\* if that is asked for and smaller, encrypted under its name and appended;
\* its PakAsset is pushed
PackAsset ==
    /\ p_stage = "assets"
    /\ pk.next <= Len(pk.file_paths_vec)
    /\ \E path_on_host \in { pk.file_paths_vec[pk.next] } :
       \E asset_name_bytes \in { AssetName(path_on_host) } :
       \E raw \in { ReadFile(path_on_host) } :
       \E plain \in { MaybeCompress(raw, p_args.compress_files) } :
       \E asset_data \in { Encrypt(asset_name_bytes, p_args.key, plain) } :
          /\ pak' = [pak EXCEPT !.data = WriteAt(@, Len(@), asset_data)]
          /\ pk' = [pk EXCEPT
                 !.next = @ + 1,
                 !.stored = Append(@, plain),
                 !.assets_data_offset = @ + Len(asset_data),
                 !.assets_list = Append(@,
                     [name |-> asset_name_bytes,
                      size_decompressed |-> U32(Len(raw)),
                      size_compressed |-> U32(Len(plain)),
                      offset |-> U32(pk.assets_data_offset),
                      plaintext_crc32 |-> Crc32Hash(plain),
                      ciphertext_crc32 |-> Crc32Hash(asset_data)])]
    /\ UNCHANGED << twin, decryptVars, cipherVars, hasherVars, in_files, disk, order_out, p_args,
                    p_stage, u_args, u_stage, un >>

\* pack after the loop: the assets list is serialized, encrypted and
\* written at PAK_HEADER_SIZE, the header (crc32 still 0) at 0; compressing
\* the assets list is a todo!(); then fix_header_crc32 seeks to
\* PAK_CRC32_START_OFFSET and seeds its hasher with the file size
PackIndex ==
    /\ p_stage = "assets"
    /\ pk.next > Len(pk.file_paths_vec)
    /\ IF p_args.compress_header
       THEN PackFail("not yet implemented") /\ UNCHANGED pak
       ELSE \E total_file_size \in { Len(pak.data) } :
            \E plain \in { SerAssets(pk.assets_list) } :
            \E header_buf \in { Encrypt(ASSETS_LIST_NAME, p_args.key, plain) } :
            LET header == [version |-> U32(FILE_VERSION),
                           crc32 |-> << 0, 0 >>,
                           unk0c |-> 1,
                           timestamp |-> p_args.timestamp,
                           assets_list_size_decompressed |-> U32(pk.assets_list_bytes_len),
                           assets_list_size_compressed |-> U32(pk.assets_list_bytes_len),
                           plaintext_crc32 |-> Crc32Hash(plain),
                           ciphertext_crc32 |-> Crc32Hash(header_buf)]
            IN /\ pak' = [pak EXCEPT !.data =
                            WriteAt(WriteAt(@, PAK_HEADER_SIZE, header_buf),
                                    0, SerHeader(header))]
               /\ pk' = [pk EXCEPT !.total_file_size = total_file_size,
                                   !.reader_pos = PAK_CRC32_START_OFFSET,
                                   !.hasher = JamNewWithInitial(CrcSeed(total_file_size))]
               /\ p_stage' = "crc"
    /\ UNCHANGED << twin, decryptVars, cipherVars, hasherVars, in_files, disk, order_out, p_args,
                    u_args, u_stage, un >>

\* what one reader.read(&mut data_buffer) returns at offset pos of a file
ReadAmount(data, pos) ==
    IF Len(data) - pos < CRC32_DATA_BUFFER_SIZE
    THEN (IF Len(data) < pos THEN 0 ELSE Len(data) - pos)
    ELSE CRC32_DATA_BUFFER_SIZE

\* the loop of fix_header_crc32 ends on a read shorter than the buffer
ReadDone(amount_read) == amount_read < CRC32_DATA_BUFFER_SIZE

\* one turn of the loop of fix_header_crc32: read, update, test
FixCrcRead ==
    /\ p_stage = "crc"
    /\ LET amount_read == ReadAmount(pak.data, pk.reader_pos)
       IN /\ pk' = [pk EXCEPT
                 !.hasher = JamUpdate(@, SubSeq(pak.data, pk.reader_pos + 1,
                                                pk.reader_pos + amount_read)),
                 !.reader_pos = @ + amount_read]
          /\ p_stage' = IF ReadDone(amount_read) THEN "crcwrite" ELSE "crc"
    /\ UNCHANGED << twin, decryptVars, cipherVars, hasherVars, in_files, pak, disk, order_out,
                    p_args, u_args, u_stage, un >>

\* fix_header_crc32 after the loop: the finalized value goes to 0x08
FixCrcWrite ==
    /\ p_stage = "crcwrite"
    /\ pak' = [pak EXCEPT !.data =
                 WriteAt(@, PAK_CRC32_OFFSET, LeBytes(JamFinalize(pk.hasher)))]
    /\ p_stage' = "done"
    /\ UNCHANGED << twin, decryptVars, cipherVars, hasherVars, in_files, disk, order_out, p_args,
                    pk, u_args, u_stage, un >>

\* ------------------------------------------------------------------------
\* flow_unpack.rs: unpack
\* ------------------------------------------------------------------------

\* output_folder, a folder of the working directory: "out"
OUTPUT_FOLDER == << 111, 117, 116 >>

\* the state of the UTF-8 decoder after one more byte: "ok" between
\* characters, "c1".."c3" continuation bytes to come, "e0" "ed" "f0" "f4"
\* a restricted continuation byte to come, "bad"
Utf8Step(s, b) ==
    IF s = "ok" THEN
        IF b < 128 THEN "ok"
        ELSE IF b >= 194 /\ b <= 223 THEN "c1"
        ELSE IF b = 224 THEN "e0"
        ELSE IF b = 237 THEN "ed"
        ELSE IF b >= 225 /\ b <= 239 THEN "c2"
        ELSE IF b = 240 THEN "f0"
        ELSE IF b >= 241 /\ b <= 243 THEN "c3"
        ELSE IF b = 244 THEN "f4"
        ELSE "bad"
    ELSE IF s = "bad" THEN "bad"
    ELSE IF b < 128 \/ b > 191 THEN "bad"
    ELSE IF s = "c1" THEN "ok"
    ELSE IF s = "c2" THEN "c1"
    ELSE IF s = "c3" THEN "c2"
    ELSE IF s = "e0" THEN (IF b >= 160 THEN "c1" ELSE "bad")
    ELSE IF s = "ed" THEN (IF b <= 159 THEN "c1" ELSE "bad")
    ELSE IF s = "f0" THEN (IF b >= 144 THEN "c2" ELSE "bad")
    ELSE (IF b <= 143 THEN "c2" ELSE "bad")

RECURSIVE Utf8Range(_, _, _, _)
Utf8Range(s, name, lo, hi) ==
    IF lo > hi THEN s
    ELSE IF lo = hi THEN Utf8Step(s, name[lo])
    ELSE CHOOSE res \in { Utf8Range(r, name, ((lo + hi) \div 2) + 1, hi) :
                            r \in { Utf8Range(s, name, lo, (lo + hi) \div 2) } } : TRUE

\* std::str::from_utf8(&asset.name) succeeds
Utf8Valid(name) == Utf8Range("ok", name, 1, Len(name)) = "ok"

\* a u32 small enough to be a position or a size in a file of the model
Small(w) == w[2] < 16384

\* a + b on u32 overflows
Overflows(a, b) == a[2] + b[2] + ((a[1] + b[1]) \div H16) >= H16

\* reader.seek(Start(offset)); reader.read_exact(&mut vec![0; size])
\* succeeds: the file holds size bytes from offset on
ReadExactOk(data, offset, size) ==
    \/ size = << 0, 0 >>
    \/ /\ Small(offset) /\ Small(size)
       /\ Nat32(offset) + Nat32(size) <= Len(data)

\* decrypt_from_reader(reader, name, offset, size, key), when the read
\* succeeds
DecryptFromReader(data, name, offset, size, key) ==
    IF size = << 0, 0 >> THEN << >>
    ELSE Decrypt(name, key, SubSeq(data, Nat32(offset) + 1, Nat32(offset) + Nat32(size)))

\* the test of unpack before lz4_flex::block::decompress, on the index and
\* on every asset
IsCompressed(size_compressed, size_decompressed) == size_compressed # size_decompressed

\* the size handed to decompress, as the capacity of the output
Capacity(size) == IF Small(size) THEN Nat32(size) ELSE 2 ^ 30

\* the blob after the decompression that unpack applies (or not)
MaybeDecompress(blob, size_compressed, size_decompressed) ==
    IF IsCompressed(size_compressed, size_decompressed)
    THEN Lz4Decompress(blob, Capacity(size_decompressed))
    ELSE [ok |-> TRUE, data |-> blob]

\* the files and directories below the directory dir
Below(paths, dir) ==
    { q \in paths : Len(q) >= Len(dir) /\ SubSeq(q, 1, Len(dir)) = dir }

\* std::fs::remove_dir_all(output_folder)
RemoveDirAll(d, dir) ==
    [files |-> [f \in DOMAIN d.files \ Below(DOMAIN d.files, dir) |-> d.files[f]],
     dirs |-> d.dirs \ Below(d.dirs, dir)]

\* the non-empty prefixes of a list of components
Prefixes(comps) == { SubSeq(comps, 1, k) : k \in 1..Len(comps) }

\* std::fs::create_dir_all(output_subfolder) succeeds: no file is in the way
CreateDirAllOk(d, comps) == Prefixes(comps) \cap DOMAIN d.files = {}

\* std::fs::write(output_path, ..) succeeds after create_dir_all: the path
\* names no directory and is a file name the host accepts
WriteOk(d, output_path) ==
    /\ Components(output_path) \notin d.dirs \cup Prefixes(Parent(output_path))
    /\ output_path[Len(output_path)] # Sep
    /\ \A i \in 1..Len(output_path) : output_path[i] # 0

\* the disk after create_dir_all(parent) and write(output_path, data)
WriteFile(d, output_path, data) ==
    [files |-> [f \in DOMAIN d.files \cup { Components(output_path) } |->
                   IF f = Components(output_path) THEN data ELSE d.files[f]],
     dirs |-> d.dirs \cup Prefixes(Parent(output_path))]

\* the local variables of unpack before it starts
UnInit ==
    [assets |-> << >>, next |-> 1, assets_list_size_compressed |-> << 0, 0 >>,
     written |-> << >>, decompressed |-> << >>, error |-> "none"]

\* what stops unpack before the loop over the assets on the file data,
\* "none" when nothing does: PakHeader::read, the version, the read of the
\* assets list, its decompression, PakAssets::read
UnpackHeaderError(data, key) ==
    IF ~HeaderReadable(data) THEN "header"
    ELSE LET header == ParseHeader(data)
             size == header.assets_list_size_compressed
         IN IF header.version # U32(FILE_VERSION) THEN "unknown PAK version"
            ELSE IF ~ReadExactOk(data, U32(PAK_HEADER_SIZE), size) THEN "read"
            ELSE LET blob == MaybeDecompress(
                               DecryptFromReader(data, ASSETS_LIST_NAME,
                                                 U32(PAK_HEADER_SIZE), size, key),
                               size, header.assets_list_size_decompressed)
                 IN IF ~blob.ok THEN "decompress"
                    ELSE IF ~ParseAssets(blob.data).ok THEN "parse"
                    ELSE "none"

\* assets.contents, when nothing stops unpack before the loop
UnpackAssetsList(data, key) ==
    LET header == ParseHeader(data)
        size == header.assets_list_size_compressed
    IN ParseAssets(MaybeDecompress(
                     DecryptFromReader(data, ASSETS_LIST_NAME,
                                       U32(PAK_HEADER_SIZE), size, key),
                     size, header.assets_list_size_decompressed).data).contents

UnpackFail(why) ==
    /\ u_stage' = "failed"
    /\ un' = [un EXCEPT !.error = why]

\* unpack, up to the loop over the assets: an existing output folder is
\* removed (force) or stops the run, the input is opened, the order file is
\* created or truncated, the header is read and checked, the assets list is
\* decrypted, decompressed if its sizes differ, and parsed
UnpackStart ==
    /\ u_stage = "start"
    /\ p_stage \in { "none", "done", "failed" }
    /\ IF Components(OUTPUT_FOLDER) \in disk.dirs /\ ~u_args.force
       THEN UnpackFail("output directory exists") /\ UNCHANGED << disk, order_out >>
       ELSE /\ disk' = IF Components(OUTPUT_FOLDER) \in disk.dirs
                       THEN RemoveDirAll(disk, Components(OUTPUT_FOLDER))
                       ELSE disk
            /\ IF ~pak.exists
               THEN UnpackFail("open") /\ UNCHANGED order_out
               ELSE /\ order_out' = IF u_args.order_file
                                    THEN [exists |-> TRUE, lines |-> << >>]
                                    ELSE order_out
                    /\ \E error \in { UnpackHeaderError(pak.data, u_args.key) } :
                       IF error # "none"
                       THEN UnpackFail(error)
                       ELSE /\ un' = [un EXCEPT
                                 !.assets = UnpackAssetsList(pak.data, u_args.key),
                                 !.assets_list_size_compressed =
                                     ParseHeader(pak.data).assets_list_size_compressed]
                            /\ u_stage' = "assets"
    /\ UNCHANGED << twin, decryptVars, cipherVars, hasherVars, in_files, pak, p_args, p_stage, pk, u_args >>

\* a mutant of AbsOffset: the offset counted from the end of the header
AbsOffsetFromHeader(assets_list_size_compressed, offset) ==
    Add32(U32(PAK_HEADER_SIZE), offset)

\* abs_offset: PAK_HEADER_SIZE + assets_list_size_compressed + asset.offset
AbsOffset(assets_list_size_compressed, offset) ==
    Add32(Add32(U32(PAK_HEADER_SIZE), assets_list_size_compressed), offset)

AbsOffsetOverflows(assets_list_size_compressed, offset) ==
    \/ Overflows(U32(PAK_HEADER_SIZE), assets_list_size_compressed)
    \/ Overflows(Add32(U32(PAK_HEADER_SIZE), assets_list_size_compressed), offset)

\* a mutant of PathRejected: only a leading ".." is rejected
PathRejectedLeading(name) == Components(name) # << >> /\ Components(name)[1] = DotDot

\* the directory traversal test of unpack on an asset name
PathRejected(name) == HasParentDir(name)

\* what stops unpack in the turn of the loop for asset (overflow_panics:
\* the build checks arithmetic overflow), "none" when the file is written
UnpackAssetError(asset, overflow_panics) ==
    IF ~Utf8Valid(asset.name) THEN "utf8"
    ELSE IF overflow_panics /\ AbsOffsetOverflows(un.assets_list_size_compressed, asset.offset)
         THEN "overflow"
    ELSE IF ~ReadExactOk(pak.data, AbsOffset(un.assets_list_size_compressed, asset.offset),
                         asset.size_compressed)
         THEN "read"
    ELSE IF ~MaybeDecompress(
               DecryptFromReader(pak.data, asset.name,
                                 AbsOffset(un.assets_list_size_compressed, asset.offset),
                                 asset.size_compressed, u_args.key),
               asset.size_compressed, asset.size_decompressed).ok
         THEN "decompress"
    ELSE IF PathRejected(asset.name) THEN "directory traversal"
    ELSE IF Components(PathJoin(OUTPUT_FOLDER, asset.name)) = << Root >>
         THEN "no clear parent"
    ELSE IF ~CreateDirAllOk(disk, Parent(PathJoin(OUTPUT_FOLDER, asset.name)))
         THEN "create_dir_all"
    ELSE IF ~WriteOk(disk, PathJoin(OUTPUT_FOLDER, asset.name)) THEN "write"
    ELSE "none"

\* one turn of the loop over assets.contents: the name is checked to be
\* UTF-8 and goes to the order file, the payload is read and decrypted,
\* decompressed if its sizes differ, the name is tested for "..", the
\* file is written below output_folder.join(name)
UnpackAsset ==
    /\ u_stage = "assets"
    /\ un.next <= Len(un.assets)
    /\ LET asset == un.assets[un.next]
           output_path == PathJoin(OUTPUT_FOLDER, asset.name)
       IN \E overflow_panics \in
               IF AbsOffsetOverflows(un.assets_list_size_compressed, asset.offset)
               THEN BOOLEAN ELSE { FALSE } :
          \E error \in { UnpackAssetError(asset, overflow_panics) } :
          \E asset_data \in
               { IF error \in { "utf8", "overflow", "read", "decompress" } THEN << >>
                 ELSE MaybeDecompress(
                        DecryptFromReader(pak.data, asset.name,
                            AbsOffset(un.assets_list_size_compressed, asset.offset),
                            asset.size_compressed, u_args.key),
                        asset.size_compressed, asset.size_decompressed).data } :
          LET reached_decompress == error \notin { "utf8", "overflow", "read" }
          IN /\ order_out' = IF u_args.order_file /\ error # "utf8"
                             THEN [order_out EXCEPT !.lines = Append(@, asset.name)]
                             ELSE order_out
             /\ disk' = IF error = "none" THEN WriteFile(disk, output_path, asset_data)
                        ELSE IF error = "write"
                        THEN [disk EXCEPT !.dirs = @ \cup Prefixes(Parent(output_path))]
                        ELSE disk
             /\ un' = [un EXCEPT
                    !.next = IF error = "none" THEN @ + 1 ELSE @,
                    !.error = error,
                    !.written = IF error = "none" THEN Append(@, output_path) ELSE @,
                    !.decompressed =
                        IF reached_decompress
                        THEN Append(@, IsCompressed(asset.size_compressed,
                                                    asset.size_decompressed))
                        ELSE @]
             /\ u_stage' = IF error = "none" THEN "assets" ELSE "failed"
    /\ UNCHANGED << twin, decryptVars, cipherVars, hasherVars, in_files, pak, p_args, p_stage, pk, u_args >>

\* unpack after the loop: the order file is flushed
UnpackFinish ==
    /\ u_stage = "assets"
    /\ un.next > Len(un.assets)
    /\ u_stage' = "done"
    /\ UNCHANGED << twin, decryptVars, cipherVars, hasherVars, in_files, pak, disk, order_out,
                    p_args, p_stage, pk, u_args, un >>

\* ------------------------------------------------------------------------
\* flow_just_decrypt.rs: decrypt
\* ------------------------------------------------------------------------

\* the file that decrypt works on in place: the file at output_file, which
\* is the input file when the two paths name the same file
Target == IF d_args.same THEN pak ELSE out_pak

\* the two files after the file worked on became f
SetTarget(f) ==
    /\ pak' = IF d_args.same THEN f ELSE pak
    /\ out_pak' = IF d_args.same THEN out_pak ELSE f

\* the local variables of decrypt before it starts; before holds the two
\* files as they were, rewritten the names of the blobs written back
DcInit ==
    [assets |-> << >>, next |-> 1, assets_list_size_compressed |-> << 0, 0 >>,
     rewritten |-> << >>, before |-> [input |-> pak, output |-> out_pak],
     error |-> "none"]

\* what stops decrypt before the output file is opened, "none" when
\* nothing does: Path::canonicalize fails on a path that names no file, a
\* file at another output path stops the run unless force is set
DecryptCopyError ==
    IF ~pak.exists THEN "canonicalize"
    ELSE IF ~d_args.same /\ ~out_pak.exists THEN "canonicalize"
    ELSE IF ~d_args.same /\ ~d_args.force /\ out_pak.exists THEN "output file exists"
    ELSE "none"

\* what stops decrypt on the data of the opened file before the assets
\* list is written back: PakHeader::read, the version, the read of the list
DecryptHeaderError(data) ==
    IF ~HeaderReadable(data) THEN "header"
    ELSE IF ParseHeader(data).version # U32(FILE_VERSION) THEN "unknown PAK version"
    ELSE IF ~ReadExactOk(data, U32(PAK_HEADER_SIZE),
                         ParseHeader(data).assets_list_size_compressed)
         THEN "read"
    ELSE "none"

DecryptFail(why) ==
    /\ d_stage' = "failed"
    /\ dc' = [dc EXCEPT !.error = why]

\* decrypt, up to the loop over the assets: unless the two paths name the
\* same file the input is copied to the output path, the output file is
\* opened, the header is read and checked, the assets list is decrypted,
\* written back at PAK_HEADER_SIZE and parsed
DecryptStart ==
    /\ d_stage = "start"
    /\ u_stage \in { "none", "done", "failed" }
    /\ IF DecryptCopyError # "none"
       THEN DecryptFail(DecryptCopyError) /\ UNCHANGED << pak, out_pak >>
       ELSE \E data \in { pak.data } :
            \E error \in { DecryptHeaderError(data) } :
            IF error # "none"
            THEN DecryptFail(error) /\ SetTarget([exists |-> TRUE, data |-> data])
            ELSE \E size \in { ParseHeader(data).assets_list_size_compressed } :
                 \E assets_list_data \in
                      { DecryptFromReader(data, ASSETS_LIST_NAME,
                                          U32(PAK_HEADER_SIZE), size, d_args.key) } :
                 \E assets \in { ParseAssets(assets_list_data) } :
                   /\ SetTarget([exists |-> TRUE,
                                 data |-> WriteAt(data, PAK_HEADER_SIZE, assets_list_data)])
                   /\ dc' = [dc EXCEPT
                          !.assets = assets.contents,
                          !.assets_list_size_compressed = size,
                          !.rewritten = Append(@, ASSETS_LIST_NAME),
                          !.error = IF assets.ok THEN "none" ELSE "parse"]
                   /\ d_stage' = IF assets.ok THEN "assets" ELSE "failed"
    /\ UNCHANGED << twin, cipherVars, hasherVars, in_files, disk, order_out,
                    p_args, p_stage, pk, u_args, u_stage, un, d_args >>

\* what stops decrypt in the turn of the loop for asset (overflow_panics:
\* the build checks arithmetic overflow), "none" when the payload is
\* written back
DecryptAssetError(asset, overflow_panics) ==
    IF ~Utf8Valid(asset.name) THEN "utf8"
    ELSE IF overflow_panics /\ AbsOffsetOverflows(dc.assets_list_size_compressed, asset.offset)
         THEN "overflow"
    ELSE IF ~ReadExactOk(Target.data,
                         AbsOffset(dc.assets_list_size_compressed, asset.offset),
                         asset.size_compressed)
         THEN "read"
    ELSE "none"

\* one turn of the loop over assets.contents: the payload is read from the
\* file, decrypted under the name of the asset and written back where it was
DecryptAsset ==
    /\ d_stage = "assets"
    /\ dc.next <= Len(dc.assets)
    /\ \E asset \in { dc.assets[dc.next] } :
       \E abs_offset \in { AbsOffset(dc.assets_list_size_compressed, asset.offset) } :
       \E overflow_panics \in
            IF AbsOffsetOverflows(dc.assets_list_size_compressed, asset.offset)
            THEN BOOLEAN ELSE { FALSE } :
       \E error \in { DecryptAssetError(asset, overflow_panics) } :
          IF error # "none"
          THEN DecryptFail(error) /\ UNCHANGED << pak, out_pak >>
          ELSE /\ SetTarget([Target EXCEPT !.data =
                     WriteAt(@, Nat32(abs_offset),
                             DecryptFromReader(@, asset.name, abs_offset,
                                               asset.size_compressed, d_args.key))])
               /\ dc' = [dc EXCEPT !.next = @ + 1,
                                   !.rewritten = Append(@, asset.name)]
               /\ UNCHANGED d_stage
    /\ UNCHANGED << twin, cipherVars, hasherVars, in_files, disk, order_out,
                    p_args, p_stage, pk, u_args, u_stage, un, d_args >>

\* decrypt after the loop: the last writer is dropped, Ok(())
DecryptFinish ==
    /\ d_stage = "assets"
    /\ dc.next > Len(dc.assets)
    /\ d_stage' = "done"
    /\ UNCHANGED << twin, cipherVars, hasherVars, in_files, pak, disk, order_out,
                    p_args, p_stage, pk, u_args, u_stage, un, d_args, dc, out_pak >>

\* ------------------------------------------------------------------------
\* The runs: pack of an input folder and unpack of the result, or unpack of
\* a PAK file that another tool made
\* ------------------------------------------------------------------------

\* asset names: "a", "d/b", "../e", "d/../e", "/t/e"
NameA == << 97 >>
NameDB == << 100, 47, 98 >>
NameUpE == << 46, 46, 47, 101 >>
NameDUpE == << 100, 47, 46, 46, 47, 101 >>
NameAbsE == << 47, 116, 47, 101 >>

\* lines of an order file: "d//b" names the file d/b, "x" names no file,
\* "d/../a" names the file a when d is a directory
LineDSlashSlashB == << 100, 47, 47, 98 >>
LineX == << 120 >>
LineDUpA == << 100, 47, 46, 46, 47, 97 >>

\* length of the file content that is one repeated byte
RunLen == 14

\* file contents: b"123456789" (LZ4 makes it longer), a run of one byte
\* (LZ4 makes it shorter), 16 bytes with one repeat of 4 bytes (LZ4 makes it
\* 16 bytes again), and a content that ends exactly one read buffer after
\* PAK_CRC32_START_OFFSET when it is the only file and its name is 1 byte long
RunBlob == AsTuple([i \in 1..RunLen |-> 97])
EqualBlob == << 1, 2, 3, 4, 1, 2, 3, 4, 9, 10, 11, 12, 13, 14, 15, 16 >>
BigBlob ==
    PatternBlob(PAK_CRC32_START_OFFSET + CRC32_DATA_BUFFER_SIZE
                  - (PAK_HEADER_SIZE + 4 + 32 + 1))
Contents == { Digits9, RunBlob, EqualBlob }

\* input folders: every choice of content for "a" and "d/b", each present
\* or not
Trees ==
    UNION { [names -> Contents] : names \in SUBSET { NameA, NameDB } }

NoOrderFile == [given |-> FALSE, lines |-> << >>]
OrderFiles ==
    { NoOrderFile,
      [given |-> TRUE, lines |-> << NameDB, LineX >>],
      [given |-> TRUE, lines |-> << LineDSlashSlashB >>],
      [given |-> TRUE, lines |-> << LineDUpA >>] }

\* timestamps as the 8 little-endian bytes of an i64: 123456789 and -2
TimestampPos == << 21, 205, 91, 7, 0, 0, 0, 0 >>
TimestampNeg == << 254, 255, 255, 255, 255, 255, 255, 255 >>

\* the timestamps 0, -1, -2^55 and 2^55 - 1, and 2^55, which 56 bits do
\* not hold
TimestampEdges ==
    { << 0, 0, 0, 0, 0, 0, 0, 0 >>,
      << 255, 255, 255, 255, 255, 255, 255, 255 >>,
      << 0, 0, 0, 0, 0, 0, 128, 255 >>,
      << 255, 255, 255, 255, 255, 255, 127, 0 >>,
      << 0, 0, 0, 0, 0, 0, 128, 0 >> }

\* a disk without the output folder, and one where it holds an old file
NoDisk == [files |-> << >>, dirs |-> {}]
OldDisk ==
    [files |-> [f \in { << OUTPUT_FOLDER, << 111 >> >> } |-> << 1, 2, 3 >>],
     dirs |-> { << OUTPUT_FOLDER >> }]

NoPak == [exists |-> FALSE, data |-> << >>]
OldPak == [exists |-> TRUE, data |-> << 1, 2, 3 >>]
NoOrderOut == [exists |-> FALSE, lines |-> << >>]

PackArgs(key, timestamp, force, compress_header, compress_files, order_file) ==
    [key |-> key, timestamp |-> timestamp, force |-> force,
     compress_header |-> compress_header, compress_files |-> compress_files,
     order_file |-> order_file]

UnpackArgs(key, force, order_file) ==
    [key |-> key, force |-> force, order_file |-> order_file]

\* pack is about to run, unpack after it
PackInit ==
    /\ \/ /\ in_files \in Trees
          /\ \E cf \in BOOLEAN, of \in OrderFiles :
               p_args = PackArgs(TEST_KEY, TimestampPos, FALSE, FALSE, cf, of)
          /\ pak = NoPak
          /\ disk = NoDisk
          /\ u_args = UnpackArgs(TEST_KEY, FALSE, TRUE)
       \/ /\ in_files = [n \in { NameA, NameDB } |-> IF n = NameA THEN Digits9 ELSE RunBlob]
          /\ \E k \in CipherKeys, f \in BOOLEAN, ch \in BOOLEAN :
               p_args = PackArgs(k, TimestampNeg, f, ch, TRUE, NoOrderFile)
          /\ pak \in { NoPak, OldPak }
          /\ disk \in { NoDisk, OldDisk }
          /\ \E f \in BOOLEAN, of \in BOOLEAN : u_args = UnpackArgs(p_args.key, f, of)
       \/ /\ in_files = [n \in { NameA } |-> Digits9]
          /\ \E t \in TimestampEdges :
               p_args = PackArgs(TEST_KEY, t, FALSE, FALSE, FALSE, NoOrderFile)
          /\ pak = NoPak
          /\ disk = NoDisk
          /\ u_args = UnpackArgs(TEST_KEY, FALSE, FALSE)
       \/ /\ in_files = [n \in { NameA } |-> BigBlob]
          /\ p_args = PackArgs(TEST_KEY, TimestampPos, FALSE, FALSE, FALSE, NoOrderFile)
          /\ pak = NoPak
          /\ disk = NoDisk
          /\ u_args = UnpackArgs(TEST_KEY, FALSE, FALSE)
    /\ p_stage = "start"
    /\ pk = PkInit
    /\ u_stage = "start"
    /\ un = UnInit
    /\ order_out = NoOrderOut

\* a PAK file of another tool, from entries [name, data, compress]: the
\* payload of an entry is stored LZ4-compressed when compress is set
RECURSIVE CraftAssets(_, _, _, _)
CraftAssets(entries, i, offset, key) ==
    IF i > Len(entries) THEN << >>
    ELSE LET e == entries[i]
             plain == IF e.compress THEN Lz4Compress(e.data) ELSE e.data
         IN << [name |-> e.name,
                size_decompressed |-> U32(Len(e.data)),
                size_compressed |-> U32(Len(plain)),
                offset |-> U32(offset),
                plaintext_crc32 |-> Crc32Hash(plain),
                ciphertext_crc32 |-> Crc32Hash(Encrypt(e.name, key, plain))] >>
            \o CraftAssets(entries, i + 1, offset + Len(plain), key)

RECURSIVE CraftPayloads(_, _, _)
CraftPayloads(entries, i, key) ==
    IF i > Len(entries) THEN << >>
    ELSE Encrypt(entries[i].name, key,
                 IF entries[i].compress THEN Lz4Compress(entries[i].data)
                 ELSE entries[i].data)
         \o CraftPayloads(entries, i + 1, key)

CraftPak(entries, key, version) ==
    LET plain == SerAssets(CraftAssets(entries, 1, 0, key))
        header_buf == Encrypt(ASSETS_LIST_NAME, key, plain)
    IN SerHeader([version |-> U32(version), crc32 |-> << 0, 0 >>, unk0c |-> 1,
                  timestamp |-> TimestampPos,
                  assets_list_size_decompressed |-> U32(Len(plain)),
                  assets_list_size_compressed |-> U32(Len(plain)),
                  plaintext_crc32 |-> Crc32Hash(plain),
                  ciphertext_crc32 |-> Crc32Hash(header_buf)])
       \o header_buf \o CraftPayloads(entries, 1, key)

\* most entries of a PAK file of another tool
MaxEntries == 2

\* the entries such a file may hold: every name with a raw payload, and
\* "a" with a payload whose compressed form is longer than the raw form
CraftEntries ==
    { [name |-> n, data |-> Digits9, compress |-> FALSE] :
        n \in { NameA, NameDB, NameUpE, NameDUpE, NameAbsE } }
    \cup { [name |-> NameA, data |-> Digits9, compress |-> TRUE] }

CraftEntryLists ==
    UNION { [1..n -> CraftEntries] : n \in 0..MaxEntries }

\* unpack is about to run on a PAK file of another tool
CraftInit ==
    /\ \E entries \in CraftEntryLists :
         pak = [exists |-> TRUE, data |-> CraftPak(entries, TEST_KEY, FILE_VERSION)]
    /\ \E of \in BOOLEAN : u_args = UnpackArgs(TEST_KEY, FALSE, of)
    /\ in_files = << >>
    /\ disk = NoDisk
    /\ p_args = PackArgs(TEST_KEY, TimestampPos, FALSE, FALSE, FALSE, NoOrderFile)
    /\ p_stage = "none"
    /\ pk = PkInit
    /\ u_stage = "start"
    /\ un = UnInit
    /\ order_out = NoOrderOut

Init ==
    /\ PackInit \/ CraftInit
    /\ CipherIdle
    /\ HasherIdle
    /\ TwinIdle
    /\ DecryptIdle

Next ==
    \/ PackStart
    \/ PackAsset
    \/ PackIndex
    \/ FixCrcRead
    \/ FixCrcWrite
    \/ UnpackStart
    \/ UnpackAsset
    \/ UnpackFinish

Spec == Init /\ [][Next]_vars

\* ------------------------------------------------------------------------
\* Two runs of unpack, on two containers that differ only in fields that
\* PakHeader::read and PakAsset::read store or skip but unpack never uses
\* ------------------------------------------------------------------------

\* the fields of a PakAsset after size_decompressed (at q, 1-based) that
\* unpack does not use: _field_0c and _field_10, or the two checksums
TamperEntry(plain, q, kind, v) ==
    IF kind = "entry derived words"
    THEN WriteAt(WriteAt(plain, q + 11, v), q + 15, v)
    ELSE WriteAt(WriteAt(plain, q + 19, v), q + 23, v)

\* a serialized assets list with those fields of every entry from pos on
\* set to the bytes v
RECURSIVE TamperEntries(_, _, _, _)
TamperEntries(plain, pos, kind, v) ==
    IF pos > Len(plain) THEN plain
    ELSE TamperEntries(TamperEntry(plain, pos + 4 + LeWord(plain, pos)[1], kind, v),
                       pos + 32 + LeWord(plain, pos)[1], kind, v)

\* the fields that a twin container may differ in
TwinKinds ==
    { "crc32", "derived word", "index checksums",
      "entry derived words", "entry checksums" }

\* the value they are set to
TwinValue == << 222, 173, 190, 239 >>

\* the container data with the fields of one kind set to v; the fields of
\* the entries are set in the assets list before it is encrypted
Tampered(data, key, kind, v) ==
    IF kind = "crc32" THEN WriteAt(data, PAK_CRC32_OFFSET, v)
    ELSE IF kind = "derived word" THEN WriteAt(data, SizesOffset + 8, v)
    ELSE IF kind = "index checksums"
         THEN WriteAt(WriteAt(data, SizesOffset + 12, v), SizesOffset + 16, v)
    ELSE LET size == ParseHeader(data).assets_list_size_compressed
             plain == DecryptFromReader(data, ASSETS_LIST_NAME,
                                        U32(PAK_HEADER_SIZE), size, key)
         IN WriteAt(data, PAK_HEADER_SIZE,
                    Encrypt(ASSETS_LIST_NAME, key, TamperEntries(plain, 5, kind, v)))

\* the entries of the two containers: a raw payload in a subfolder, a
\* payload stored compressed, a name that unpack rejects
TwinEntries ==
    { [name |-> NameDB, data |-> Digits9, compress |-> FALSE],
      [name |-> NameA, data |-> RunBlob, compress |-> TRUE],
      [name |-> NameUpE, data |-> Digits9, compress |-> FALSE] }

TwinEntryLists == UNION { [1..n -> TwinEntries] : n \in 0..MaxEntries }

\* what a run of unpack leaves behind: how it ended, the files and
\* directories on the disk, the order file
Outcome == [stage |-> u_stage, error |-> un.error, disk |-> disk, order_out |-> order_out]

\* unpack is about to run on a container; its twin waits for the second run
TwinInit ==
    /\ \E entries \in TwinEntryLists, kind \in TwinKinds, v \in { TwinValue } :
         \E data \in { CraftPak(entries, TEST_KEY, FILE_VERSION) } :
           /\ pak = [exists |-> TRUE, data |-> data]
           /\ twin = [stage |-> "first", kind |-> kind,
                      other |-> Tampered(data, TEST_KEY, kind, v)]
    /\ u_args = UnpackArgs(TEST_KEY, FALSE, TRUE)
    /\ in_files = << >>
    /\ disk = NoDisk
    /\ p_args = PackArgs(TEST_KEY, TimestampPos, FALSE, FALSE, FALSE, NoOrderFile)
    /\ p_stage = "none"
    /\ pk = PkInit
    /\ u_stage = "start"
    /\ un = UnInit
    /\ order_out = NoOrderOut
    /\ CipherIdle
    /\ HasherIdle
    /\ DecryptIdle

\* between the two runs: the outcome of the first is kept, the disk and the
\* order file are put back as they were, the twin container takes the place
\* of the first, and unpack is about to run again with the same arguments
UnpackTwin ==
    /\ twin.stage = "first"
    /\ u_stage \in { "done", "failed" }
    /\ twin' = [stage |-> "second", kind |-> twin.kind, other |-> pak.data,
                first |-> Outcome]
    /\ pak' = [pak EXCEPT !.data = twin.other]
    /\ disk' = NoDisk
    /\ order_out' = NoOrderOut
    /\ un' = UnInit
    /\ u_stage' = "start"
    /\ UNCHANGED << decryptVars, cipherVars, hasherVars, in_files, p_args,
                    p_stage, pk, u_args >>

TwinNext == UnpackStart \/ UnpackAsset \/ UnpackFinish \/ UnpackTwin

SpecTwin == TwinInit /\ [][TwinNext]_vars

\* C11: unpack does not depend on the stored checksums or derived words.
\* Two containers that differ only in the header's crc32, in the header's
\* derived word, in the header's plaintext / ciphertext checksums of the
\* assets list, in every entry's two derived words or in every entry's
\* plaintext / ciphertext checksums give the same outcome of unpack: it
\* ends the same way (done, or failed with the same error), with the same
\* files (names and bytes) and directories on the disk and the same order
\* file.
C11_SameOutcome ==
    (twin.stage = "second" /\ u_stage \in { "done", "failed" })
        => Outcome = twin.first

\* C11 witness: the second run is over; the two containers differ, in the
\* fields of the entries; both runs wrote a file for an entry that is
\* stored compressed and then failed on a name with a ".." component
C11_Witness ==
    /\ twin.stage = "second"
    /\ twin.kind = "entry derived words"
    /\ twin.other # pak.data
    /\ u_stage = "failed"
    /\ un.error = "directory traversal"
    /\ un.decompressed = << TRUE, FALSE >>
    /\ twin.first.error = "directory traversal"
    /\ DOMAIN disk.files # {}

\* ------------------------------------------------------------------------
\* unpack, then the decrypt-only flow, on a PAK file that another tool made
\* ------------------------------------------------------------------------

\* "KCAQ": four bytes that are not the magic
BadMagic == << 75, 67, 65, 81 >>

\* the entries of such a file: a raw payload, a payload stored compressed
DecryptEntries ==
    { [name |-> NameA, data |-> Digits9, compress |-> FALSE],
      [name |-> NameDB, data |-> RunBlob, compress |-> TRUE] }

DecryptEntryLists == UNION { [1..n -> DecryptEntries] : n \in 0..MaxEntries }

\* the files at the input path: well-formed ones, ones of the version after
\* FILE_VERSION, ones with another magic, and one of 3 bytes
DecryptPaks ==
    UNION { { CraftPak(entries, TEST_KEY, FILE_VERSION),
              CraftPak(entries, TEST_KEY, FILE_VERSION + 1),
              WriteAt(CraftPak(entries, TEST_KEY, FILE_VERSION), 0, BadMagic) } :
            entries \in DecryptEntryLists }
    \cup { OldPak.data }

DecryptArgs(key, force, same) == [key |-> key, force |-> force, same |-> same]

\* unpack is about to run on the file, decrypt after it: in place, or to an
\* output path where no file or an old file is
DecryptInit ==
    /\ \E data \in DecryptPaks : pak = [exists |-> TRUE, data |-> data]
    /\ \E force \in BOOLEAN, same \in BOOLEAN :
         d_args = DecryptArgs(TEST_KEY, force, same)
    /\ IF d_args.same THEN out_pak = NoPak ELSE out_pak \in { NoPak, OldPak }
    /\ d_stage = "start"
    /\ dc = DcInit
    /\ u_args = UnpackArgs(TEST_KEY, FALSE, TRUE)
    /\ in_files = << >>
    /\ disk = NoDisk
    /\ p_args = PackArgs(TEST_KEY, TimestampPos, FALSE, FALSE, FALSE, NoOrderFile)
    /\ p_stage = "none"
    /\ pk = PkInit
    /\ u_stage = "start"
    /\ un = UnInit
    /\ order_out = NoOrderOut
    /\ CipherIdle
    /\ HasherIdle
    /\ TwinIdle

DecryptNext ==
    \/ UnpackStart
    \/ UnpackAsset
    \/ UnpackFinish
    \/ DecryptStart
    \/ DecryptAsset
    \/ DecryptFinish

SpecDecrypt == DecryptInit /\ [][DecryptNext]_vars

\* the first 4 bytes of a file are not the magic, or its version field is
\* not FILE_VERSION
WrongMagic(data) == Len(data) < 4 \/ SubSeq(data, 1, 4) # PAK_MAGIC
WrongVersion(data) == HeaderReadable(data) /\ LeWord(data, 5) # U32(FILE_VERSION)

\* C12: unpack and the decrypt-only flow reject a file whose first 4 bytes
\* are not "KCAP" or whose version is not 103. unpack fails on the header
\* or on the version with no assets list decrypted or parsed, no file
\* written and no line in the order file; decrypt fails with no assets list
\* decrypted, parsed or written back and no payload written back: the input
\* file is as it was, and the file at another output path is as it was or
\* a byte-for-byte copy of the input.
C12_Rejected ==
    (WrongMagic(dc.before.input.data) \/ WrongVersion(dc.before.input.data)) =>
        /\ u_stage \in { "done", "failed" } =>
              /\ u_stage = "failed"
              /\ un.error \in { "header", "unknown PAK version" }
              /\ un.assets = << >> /\ un.written = << >>
              /\ DOMAIN disk.files = {} /\ order_out.lines = << >>
        /\ u_stage = "start" => d_stage = "start"
        /\ d_stage # "start" =>
              /\ d_stage = "failed"
              /\ dc.error \in { "canonicalize", "output file exists", "header",
                                "unknown PAK version" }
              /\ dc.assets = << >> /\ dc.rewritten = << >>
              /\ pak = dc.before.input
              /\ out_pak \in { dc.before.output, dc.before.input }

\* C12 witness: a file of version 104 with two entries was rejected by
\* unpack and by decrypt (in place) on its version; a file with another
\* magic is told apart by the error
C12_Witness ==
    /\ WrongVersion(dc.before.input.data)
    /\ ~WrongMagic(dc.before.input.data)
    /\ Len(dc.before.input.data) > PAK_HEADER_SIZE + 4 + 2 * 32
    /\ u_stage = "failed" /\ un.error = "unknown PAK version"
    /\ d_stage = "failed" /\ dc.error = "unknown PAK version"
    /\ d_args.same

\* the bytes of entry asset in the data of a file
PayloadOf(data, size, asset) ==
    SubSeq(data, Nat32(AbsOffset(size, asset.offset)) + 1,
           Nat32(AbsOffset(size, asset.offset)) + Nat32(asset.size_compressed))

\* C18: when the output path of decrypt is not the input path and no file
\* is at the output path, or one is and force is set, decrypt makes a copy
\* of the input there and decrypts the copy in place (it does not stop
\* before the copy; the output is the input but for the blobs written back;
\* once it is done every payload of the output is the decrypted payload of
\* the input) and leaves the input as it was; when a file is at the output
\* path and force is not set it fails with "output file exists" and leaves
\* the output as it was.
C18_CopyThenDecrypt ==
    (~d_args.same /\ d_stage # "start") =>
        /\ (~dc.before.output.exists \/ d_args.force) =>
              /\ dc.error \notin { "canonicalize", "output file exists" }
              /\ pak = dc.before.input
              /\ out_pak.exists
              /\ Len(out_pak.data) = Len(pak.data)
              /\ dc.rewritten = << >> => out_pak.data = pak.data
              /\ d_stage = "done" =>
                    \A i \in 1..Len(dc.assets) :
                      PayloadOf(out_pak.data, dc.assets_list_size_compressed, dc.assets[i])
                        = Decrypt(dc.assets[i].name, d_args.key,
                                  PayloadOf(pak.data, dc.assets_list_size_compressed,
                                            dc.assets[i]))
        /\ (dc.before.output.exists /\ ~d_args.force) =>
              /\ d_stage = "failed"
              /\ dc.error = "output file exists"
              /\ out_pak = dc.before.output
              /\ pak = dc.before.input

\* ------------------------------------------------------------------------
\* Claims on pack and unpack (checked under Spec)
\* ------------------------------------------------------------------------

\* the file that unpack left for the asset name, below the output folder
OutFile(name) == Components(OUTPUT_FOLDER) \o Components(name)

\* every file of the input folder is below the output folder, same
\* relative path, same bytes
Reproduced ==
    \A n \in DOMAIN in_files :
      /\ OutFile(n) \in DOMAIN disk.files
      /\ disk.files[OutFile(n)] = in_files[n]

\* unpack ran to its end, not stopped by an output folder that exists
UnpackRan ==
    u_stage \in { "done", "failed" } /\ un.error # "output directory exists"

\* Claim C2: packing a directory tree and then unpacking the resulting
\* container with the same key yields, for every original file, a file at
\* the same relative path under the output folder with identical contents,
\* whether or not per-file compression was requested.
C2_RoundTrip ==
    (p_stage = "done" /\ u_args.key = p_args.key /\ UnpackRan)
        => (u_stage = "done" /\ Reproduced)

\* the JAMCRC-32, seeded with the length of the file, of the bytes of the
\* file from offset start (0-based) to the end
JamOfTail(data, start) ==
    JamFinalize(JamUpdate(JamNewWithInitial(U32(Len(data))),
                          SubSeq(data, start + 1, Len(data))))

\* the crc32 field of the header of a file
StoredCrc(data) == LeWord(data, PAK_CRC32_OFFSET + 1)

\* the stored value is the checksum of the tail of the file as it is now
ChecksumMatches ==
    StoredCrc(pak.data) = JamOfTail(pak.data, PAK_CRC32_START_OFFSET)

\* a step leaves the length of the file and its checksummed tail as they are
TailUnchanged ==
    SubSeq(pak'.data, PAK_CRC32_START_OFFSET + 1, Len(pak'.data))
      = SubSeq(pak.data, PAK_CRC32_START_OFFSET + 1, Len(pak.data))

\* Claim C3: after pack returns successfully, the value at header offset
\* 0x08 is the JAMCRC-32, seeded with the total file length, of the final
\* file bytes from the checksum start offset to the end of the file, for
\* every tail length (a multiple of the 8192-byte read buffer included),
\* and no byte of that range changes once the checksum pass is over.
C3_HeaderChecksum ==
    /\ [](p_stage = "done" => ChecksumMatches)
    /\ [][(p_stage \in { "crcwrite", "done" }) => TailUnchanged]_vars

\* pack returned, the checksummed tail is exactly one read buffer long and
\* the loop made its last, empty read at the end of the file
C3_Witness ==
    /\ p_stage = "done"
    /\ Len(pak.data) - PAK_CRC32_START_OFFSET = CRC32_DATA_BUFFER_SIZE
    /\ pk.reader_pos = Len(pak.data)
    /\ StoredCrc(pak.data) = JamOfTail(pak.data, PAK_CRC32_START_OFFSET)

\* Claim C9 (as stated): the standard CRC-32 that pack stores as
\* plaintext_crc32, of the 9 bytes "123456789", is 0x2DFD2D88.
C9_StandardCrcAsStated ==
    \A i \in 1..Len(pk.assets_list) :
      pk.stored[i] = Digits9
        => pk.assets_list[i].plaintext_crc32 = << 11656, 11773 >>

\* Claim C9 (amended): the standard CRC-32 that pack stores as
\* plaintext_crc32, of the 9 bytes "123456789", is 0xCBF43926.
C9_StandardCrc ==
    \A i \in 1..Len(pk.assets_list) :
      pk.stored[i] = Digits9
        => pk.assets_list[i].plaintext_crc32 = << 14630, 52212 >>

\* pack stored the payload "123456789" raw and recorded its checksum
C9_Witness ==
    /\ p_stage = "done"
    /\ \E i \in 1..Len(pk.assets_list) :
         /\ pk.stored[i] = Digits9
         /\ pk.assets_list[i].plaintext_crc32 = << 14630, 52212 >>

\* Claim C10 (as stated): the range of the whole-file checksum begins at
\* the byte right after the two index-size fields of the header and runs
\* to the end of the file; neither size field is in it.
C10_RangeAfterSizes ==
    p_stage = "done" => StoredCrc(pak.data) = JamOfTail(pak.data, SizesOffset + 8)

\* Claim C10 (amended): the range of the whole-file checksum begins at the
\* first byte of the index decompressed-size field (0x14) and runs to the
\* end of the file; both size fields are its first 8 bytes.
C10_RangeFromSizes ==
    p_stage = "done"
      => /\ StoredCrc(pak.data) = JamOfTail(pak.data, SizesOffset)
         /\ SubSeq(pak.data, SizesOffset + 1, SizesOffset + 8)
              = LeBytes(U32(pk.assets_list_bytes_len))
                  \o LeBytes(U32(pk.assets_list_bytes_len))
         /\ pk.reader_pos = Len(pak.data)

\* pack returned for a folder with files; the sizes are not zero
C10_Witness ==
    /\ p_stage = "done"
    /\ Len(pk.assets_list) = 2
    /\ StoredCrc(pak.data) = JamOfTail(pak.data, SizesOffset)
    /\ StoredCrc(pak.data) # JamOfTail(pak.data, SizesOffset + 8)

\* the index that unpack parsed holds an entry with a ".." segment
HoldsParentDir ==
    \E i \in 1..Len(un.assets) : HasParentDir(un.assets[i].name)

\* Claim C4 (as stated): if the entry index holds an entry whose name has a
\* parent-directory segment, at any position, unpack fails, and at the
\* point of failure that run of unpack has written no file.
C4_NothingWritten ==
    (HoldsParentDir /\ u_stage \in { "done", "failed" })
        => (u_stage = "failed" /\ un.written = << >>)

\* Claim C4 (amended): if the entry index holds an entry whose name has a
\* parent-directory segment, unpack fails at that entry or before it: it
\* never ends successfully, and it writes no file for that entry nor for
\* any entry after it; the files of the entries before it are written.
C4_RejectedAtEntry ==
    \A i \in 1..Len(un.assets) :
      HasParentDir(un.assets[i].name)
        => /\ u_stage # "done"
           /\ un.next <= i
           /\ Len(un.written) < i
           /\ \A j \in 1..Len(un.written) :
                un.written[j] = PathJoin(OUTPUT_FOLDER, un.assets[j].name)

\* unpack stopped at a second entry named "d/../e" after it wrote the
\* file of the first entry
C4_Witness ==
    /\ u_stage = "failed"
    /\ un.error = "directory traversal"
    /\ un.next = 2
    /\ un.assets[2].name = NameDUpE
    /\ Len(un.written) = 1

\* a path that lies inside the output folder
InsideOutput(p) == HasPrefix(p, OUTPUT_FOLDER) /\ ~HasParentDir(p)

\* Claim C5: whatever names the entries of a container hold (relative ones,
\* ones with parent-directory segments, absolute ones), every file that
\* unpack creates or writes lies inside the output folder.
C5_InsideOutput ==
    /\ \A j \in 1..Len(un.written) : InsideOutput(un.written[j])
    /\ u_stage # "none"
         => \A f \in DOMAIN disk.files :
              f \in DOMAIN OldDisk.files \/ SubSeq(f, 1, 1) = Components(OUTPUT_FOLDER)

\* the content of the file that pack read for its i-th asset
PackedRaw(i) == ReadFile(pk.file_paths_vec[i])

\* Claim C6: pack stores a payload compressed only if compression was asked
\* for and the compressed form is strictly shorter; otherwise it stores the
\* payload raw with size_compressed = size_decompressed. unpack decompresses
\* a payload exactly when its two recorded sizes differ, so a payload that
\* was stored raw is never decompressed.
C6_Compression ==
    /\ \A i \in 1..Len(pk.assets_list) :
         /\ pk.assets_list[i].size_decompressed = U32(Len(PackedRaw(i)))
         /\ pk.assets_list[i].size_compressed = U32(Len(pk.stored[i]))
         /\ pk.stored[i] # PackedRaw(i)
              => /\ p_args.compress_files
                 /\ Len(pk.stored[i]) < Len(PackedRaw(i))
                 /\ Lz4Decompress(pk.stored[i], Len(PackedRaw(i)))
                      = [ok |-> TRUE, data |-> PackedRaw(i)]
         /\ pk.stored[i] = PackedRaw(i)
              => pk.assets_list[i].size_compressed = pk.assets_list[i].size_decompressed
    /\ \A j \in 1..Len(un.decompressed) :
         /\ un.decompressed[j]
              <=> un.assets[j].size_compressed # un.assets[j].size_decompressed
         /\ (p_stage = "done" /\ un.assets = pk.assets_list
               /\ pk.stored[j] = PackedRaw(j))
              => ~un.decompressed[j]

\* compression was asked for; "a" (16 bytes, 16 bytes compressed) was
\* stored raw and not decompressed, "d/b" (a run) compressed and decompressed
C6_Witness ==
    /\ p_stage = "done" /\ u_stage = "done"
    /\ p_args.compress_files
    /\ Len(pk.stored) = 2
    /\ PackedRaw(1) = EqualBlob /\ pk.stored[1] = EqualBlob
    /\ Len(Lz4Compress(EqualBlob)) = Len(EqualBlob)
    /\ PackedRaw(2) = RunBlob /\ Len(pk.stored[2]) < Len(RunBlob)
    /\ un.decompressed = << FALSE, TRUE >>
    /\ Reproduced

\* the file (its components on the host) that a path names
NamedFile(p) == Resolve(<< >>, Components(p))

\* the files that the lines of the order file name, in the order of the
\* lines; a line that names no file of the input folder gives nothing
FilesOfLines(lines) ==
    SelectSeq(AsTuple([i \in 1..Len(lines) |->
                         NamedFile(PathJoin(INPUT_FOLDER, lines[i]))]),
              LAMBDA f : f \in HostFiles)

\* the files of the input folder that are not among first, in the order of
\* the directory walk
FilesNotIn(first) ==
    SelectSeq(AsTuple([i \in 1..Len(WalkOrder) |-> HostFile(WalkOrder[i])]),
              LAMBDA f : \A j \in 1..Len(first) : first[j] # f)

\* the files that the entries of the index of pack name under the input
\* folder, in index order
FilesOfIndex ==
    AsTuple([i \in 1..Len(pk.assets_list) |->
               NamedFile(PathJoin(INPUT_FOLDER, pk.assets_list[i].name))])

\* C13: when pack is given an order file, the index lists first the files
\* that the lines of the order file name under the input folder, in the
\* order of the lines, and then every file of the input folder that no
\* line names, in the sorted order of the directory walk; a line that
\* names no file gives no entry.
C13_OrderFileFirst ==
    (p_stage \in { "crc", "crcwrite", "done" } /\ p_args.order_file.given) =>
        FilesOfIndex = FilesOfLines(p_args.order_file.lines)
                         \o FilesNotIn(FilesOfLines(p_args.order_file.lines))

\* C14: with compress_header set, pack runs to completion: once the output
\* file is open and the payloads are written, pack does not stop; it writes
\* the assets list (compressed when that is smaller, then encrypted) and a
\* header that holds its decompressed and compressed sizes, and patches
\* the crc32.
C14_CompressHeaderCompletes ==
    (p_stage \in { "crc", "crcwrite", "done", "failed" } /\ p_args.compress_header
       /\ pk.error \notin { "output file exists", "strip_prefix" }) =>
        /\ p_stage # "failed"
        /\ HeaderReadable(pak.data)
        /\ ParseHeader(pak.data).assets_list_size_decompressed
             = U32(Len(SerAssets(pk.assets_list)))
        /\ Nat32(ParseHeader(pak.data).assets_list_size_compressed)
             <= Len(SerAssets(pk.assets_list))
        /\ p_stage = "done" => ChecksumMatches

\* an i64 (its 8 little-endian bytes) that 56 bits hold: -2^55 <= t < 2^55
Fits56(t) == t[8] = IF t[7] >= 128 THEN 255 ELSE 0

\* C16: for every timestamp t with -2^55 <= t < 2^55, the header that pack
\* wrote with timestamp t reads back with timestamp t: the sign is bit 55,
\* the value is sign-extended to 64 bits, and the byte at 0x14, which the
\* 8-byte read shares with assets_list_size_decompressed, is ignored;
\* assets_list_size_decompressed reads back as written; the header is 40
\* bytes, and writing what was read gives the same 40 bytes.
C16_TimestampRoundTrip ==
    (p_stage \in { "crc", "crcwrite", "done" } /\ Fits56(p_args.timestamp)) =>
        /\ HeaderReadable(pak.data)
        /\ ParseHeader(pak.data).timestamp = p_args.timestamp
        /\ ParseHeader(pak.data).assets_list_size_decompressed
             = U32(pk.assets_list_bytes_len)
        /\ Len(SerHeader(ParseHeader(pak.data))) = PAK_HEADER_SIZE
        /\ SerHeader(ParseHeader(pak.data)) = SubSeq(pak.data, 1, PAK_HEADER_SIZE)

\* C16 witness: pack wrote the timestamp -2^55; it reads back, while the
\* byte at 0x14 is the low byte of a size and not the sign extension
C16_Witness ==
    /\ p_stage = "done"
    /\ p_args.timestamp = << 0, 0, 0, 0, 0, 0, 128, 255 >>
    /\ ParseHeader(pak.data).timestamp = p_args.timestamp
    /\ pak.data[SizesOffset + 1] \notin { 0, 255 }

\* where pack wrote the payload of its i-th asset: after the header, the
\* space of the assets list and the payloads written before
WrittenAt(i) == PAK_HEADER_SIZE + pk.assets_list_bytes_len + Nat32(pk.assets_list[i].offset)

\* C17: in the index of pack the first entry has offset 0 and every later
\* entry has the offset of the entry before it plus that entry's
\* size_compressed, and the payload of entry i (size_compressed bytes, the
\* encrypted stored payload) lies in the file at 40 + the size of the
\* assets list + offset, from the moment it is written until unpack
\* starts on the file; the header records that size as
\* assets_list_size_compressed; and unpack of the file reads the payload of
\* entry i at 40 + assets_list_size_compressed + offset, the position
\* where pack wrote it.
C17_Offsets ==
    /\ \A i \in 1..Len(pk.assets_list) :
         /\ i = 1 => pk.assets_list[i].offset = << 0, 0 >>
         /\ i > 1 => Nat32(pk.assets_list[i].offset)
                       = Nat32(pk.assets_list[i - 1].offset)
                           + Nat32(pk.assets_list[i - 1].size_compressed)
         /\ u_stage = "start" =>
              SubSeq(pak.data, WrittenAt(i) + 1,
                     WrittenAt(i) + Nat32(pk.assets_list[i].size_compressed))
                = Encrypt(pk.assets_list[i].name, p_args.key, pk.stored[i])
         /\ Len(pk.stored[i]) = Nat32(pk.assets_list[i].size_compressed)
    /\ p_stage \in { "crc", "crcwrite", "done" } =>
         ParseHeader(pak.data).assets_list_size_compressed = U32(pk.assets_list_bytes_len)
    /\ (p_stage = "done" /\ u_stage \in { "assets", "done", "failed" }) =>
         /\ Len(un.assets) <= Len(pk.assets_list)
         /\ \A i \in 1..Len(un.assets) :
              Nat32(AbsOffset(un.assets_list_size_compressed, un.assets[i].offset))
                = WrittenAt(i)

\* C17 witness: pack wrote two payloads, the second at a nonzero offset,
\* and unpack read both back
C17_Witness ==
    /\ p_stage = "done" /\ u_stage = "done"
    /\ Len(pk.assets_list) = 2 /\ Len(un.assets) = 2
    /\ pk.assets_list[2].offset # << 0, 0 >>
    /\ Nat32(AbsOffset(un.assets_list_size_compressed, un.assets[2].offset)) = WrittenAt(2)
    /\ Reproduced

\* 4 + the sum over the entries from i on of 0x20 + the length of the name
RECURSIVE IndexLen(_, _)
IndexLen(contents, i) ==
    IF i > Len(contents) THEN 4
    ELSE 32 + Len(contents[i].name) + IndexLen(contents, i + 1)

\* C19: in every container of pack, the space reserved for the assets list
\* before the payloads, the two sizes of the assets list in the header and
\* the length of the serialized assets list that was encrypted and written
\* at offset 40 are the same number, 4 + the sum over the entries of
\* 0x20 + name length; so the assets list decrypted with the recorded
\* length is the one that was serialized.
C19_IndexSizes ==
    p_stage \in { "crc", "crcwrite", "done" } =>
        /\ Len(SerAssets(pk.assets_list)) = IndexLen(pk.assets_list, 1)
        /\ pk.assets_list_bytes_len = IndexLen(pk.assets_list, 1)
        /\ ParseHeader(pak.data).assets_list_size_decompressed
             = U32(IndexLen(pk.assets_list, 1))
        /\ ParseHeader(pak.data).assets_list_size_compressed
             = U32(IndexLen(pk.assets_list, 1))
        /\ DecryptFromReader(pak.data, ASSETS_LIST_NAME, U32(PAK_HEADER_SIZE),
                             ParseHeader(pak.data).assets_list_size_compressed,
                             p_args.key)
             = SerAssets(pk.assets_list)

\* ------------------------------------------------------------------------
\* Claims on the cipher (checked under SpecCipher)
\* ------------------------------------------------------------------------

\* C1: decrypt(N, K, encrypt(N, K, D)) equals D byte for byte, for every
\* name, key and blob (lengths 0..MaxSmallLen and lengths reaching into a
\* second and third chunk), and encrypt and decrypt keep the length.
C1_RoundTrip ==
    /\ c_stage \in { "encrypted", "decrypted", "decrypted_plain" }
          => Len(c_buf) = Len(c_plain)
    /\ c_stage = "decrypted" => c_buf = c_plain

\* C1 witness: a blob of three chunks was encrypted to something else and
\* decrypted back
C1_Witness ==
    /\ c_stage = "decrypted"
    /\ Len(c_plain) > 2 * XXTEA_CHUNK_SIZE
    /\ c_enc # c_plain
    /\ c_buf = c_plain

\* the first-chunk part of C7 for one operation on the plaintext
C7_FirstChunk(cs) ==
    /\ SubSeq(c_buf, 1, cs) # SubSeq(c_plain, 1, cs)
    /\ (c_stage = "encrypted" /\ Len(c_plain) < XXTEA_CHUNK_SIZE)
          => SubSeq(c_buf, 1, cs)
               = XxteaEncrypt(GenerateKey(c_name, Len(c_plain), 0, c_key),
                              SubSeq(c_plain, 1, cs))
    /\ (c_stage = "decrypted_plain" /\ Len(c_plain) < XXTEA_CHUNK_SIZE)
          => SubSeq(c_buf, 1, cs)
               = XxteaDecrypt(GenerateKey(c_name, Len(c_plain), 0, c_key),
                              SubSeq(c_plain, 1, cs))

\* C7: encrypt and decrypt leave a blob of 0..7 bytes unchanged; a blob of 8
\* or more bytes has its first chunk transformed (by XXTEA under the key of
\* chunk 0); in a blob of 9, 10 or 11 bytes the 1, 2 or 3 bytes after the
\* multiple-of-4 boundary are unchanged. The ciphertexts of b"12345678" and
\* b"123456789" under b"test" are those of the unit tests.
C7_ShortBlobs ==
    c_stage \in { "encrypted", "decrypted_plain" } =>
        /\ Len(c_plain) <= 7 => c_buf = c_plain
        /\ Len(c_plain) >= 8 => C7_FirstChunk(ChunkSize(Len(c_plain), 0))
        /\ Len(c_plain) \in 9..11
              => SubSeq(c_buf, 9, Len(c_plain)) = SubSeq(c_plain, 9, Len(c_plain))
        /\ (c_stage = "encrypted" /\ c_name = NameTest /\ c_key = TEST_KEY
              /\ c_plain = DigitsBlob(8))
              => c_buf = << 243, 103, 175, 145, 129, 107, 200, 152 >>
        /\ (c_stage = "encrypted" /\ c_name = NameTest /\ c_key = TEST_KEY
              /\ c_plain = DigitsBlob(9))
              => c_buf = << 236, 129, 189, 218, 149, 233, 194, 213, 57 >>

\* C7 witness: an 11-byte blob was encrypted: its first 8 bytes changed, its
\* last 3 did not
C7_Witness ==
    /\ c_stage = "encrypted"
    /\ Len(c_plain) = 11
    /\ SubSeq(c_buf, 1, 8) # SubSeq(c_plain, 1, 8)
    /\ SubSeq(c_buf, 9, 11) = SubSeq(c_plain, 9, 11)

\* most full chunks of the lengths that the window arithmetic is checked on
MaxWindows == 3

\* the lengths up to 8 bytes before and after a whole number of chunks
WindowLens ==
    { L \in UNION { (k * XXTEA_CHUNK_SIZE - 8)..(k * XXTEA_CHUNK_SIZE + 8) :
                      k \in 0..MaxWindows } : L >= 0 }

\* the chunk starts of the loop over a blob of length len:
\* (0..len).step_by(XXTEA_CHUNK_SIZE)
WindowStarts(len) ==
    { k * XXTEA_CHUNK_SIZE : k \in 0..((len + XXTEA_CHUNK_SIZE - 1) \div XXTEA_CHUNK_SIZE - 1) }

\* the window at s of the buffer is the window of the plaintext transformed
\* by the operation that ran
WindowTransformed(s, cs) ==
    /\ c_stage = "encrypted" =>
          SubSeq(c_buf, s + 1, s + cs)
            = XxteaEncrypt(GenerateKey(c_name, Len(c_plain), s, c_key),
                           SubSeq(c_plain, s + 1, s + cs))
    /\ c_stage = "decrypted_plain" =>
          SubSeq(c_buf, s + 1, s + cs)
            = XxteaDecrypt(GenerateKey(c_name, Len(c_plain), s, c_key),
                           SubSeq(c_plain, s + 1, s + cs))
    /\ SubSeq(c_buf, s + 1, s + cs) # SubSeq(c_plain, s + 1, s + cs)

\* C15: the early return of encrypt / decrypt (usable chunk size <= 4) can
\* fire in the last window only. For every length L around a whole number
\* of chunks and every chunk start s of the loop: if s + 8192 < L the
\* window is a full chunk and the return does not fire; if the return fires
\* at s, no chunk start beyond s exists. On the blobs that were encrypted or
\* decrypted: every window with s + 8192 < L is transformed in full, and a
\* blob of 8192 + k bytes, 0 <= k <= 7, has its first 8192 bytes transformed
\* and its last k bytes unchanged.
C15_ExitInLastWindow ==
    /\ \A L \in WindowLens : \A s \in WindowStarts(L) :
          /\ s + XXTEA_CHUNK_SIZE < L =>
                /\ ChunkSize(L, s) = XXTEA_CHUNK_SIZE
                /\ ~EncryptExits(ChunkSize(L, s))
                /\ ~DecryptExits(ChunkSize(L, s))
          /\ (EncryptExits(ChunkSize(L, s)) \/ DecryptExits(ChunkSize(L, s))) =>
                \A t \in WindowStarts(L) : t <= s
    /\ c_stage \in { "encrypted", "decrypted_plain" } =>
          /\ \A s \in WindowStarts(Len(c_plain)) :
                s + XXTEA_CHUNK_SIZE < Len(c_plain)
                   => WindowTransformed(s, XXTEA_CHUNK_SIZE)
          /\ Len(c_plain) \in XXTEA_CHUNK_SIZE..(XXTEA_CHUNK_SIZE + 7) =>
                /\ WindowTransformed(0, XXTEA_CHUNK_SIZE)
                /\ SubSeq(c_buf, XXTEA_CHUNK_SIZE + 1, Len(c_buf))
                     = SubSeq(c_plain, XXTEA_CHUNK_SIZE + 1, Len(c_plain))

\* C15 witness: a blob of 8192 + 7 bytes was encrypted; the return fired at
\* the second chunk start, the first chunk changed, the last 7 bytes did not
C15_Witness ==
    /\ c_stage = "encrypted"
    /\ Len(c_plain) = XXTEA_CHUNK_SIZE + 7
    /\ EncryptExits(ChunkSize(Len(c_plain), XXTEA_CHUNK_SIZE))
    /\ SubSeq(c_buf, 1, XXTEA_CHUNK_SIZE) # SubSeq(c_plain, 1, XXTEA_CHUNK_SIZE)
    /\ SubSeq(c_buf, XXTEA_CHUNK_SIZE + 1, XXTEA_CHUNK_SIZE + 7)
         = SubSeq(c_plain, XXTEA_CHUNK_SIZE + 1, XXTEA_CHUNK_SIZE + 7)

\* ------------------------------------------------------------------------
\* Claims on the checksums (checked under SpecCrc)
\* ------------------------------------------------------------------------

\* the data fed to the hasher so far
HasherFed == SubSeq(h_data, 1, h_pos)

\* C8: new_with_initial(seed) -> update(data)* -> finalize() is the bitwise
\* complement of the standard CRC-32 continued from the prior value NOT seed
\* over the data, however the data was split over the calls of update; for
\* b"123456789" it is 0x2DFD2D88 with seed 0, 0x340BC6D9 with seed 0xFFFFFFFF
\* and 0x60BE8A00 with seed 0x1234.
C8_JamCrc ==
    h_stage = "final" =>
        /\ h_result = Not32(HasherFinalize(HasherUpdate(Not32(h_seed), HasherFed)))
        /\ HasherFed = Digits9 =>
              /\ h_seed = << 0, 0 >> => h_result = << 11656, 11773 >>
              /\ h_seed = << 65535, 65535 >> => h_result = << 50905, 13323 >>
              /\ h_seed = << 4660, 0 >> => h_result = << 35328, 24766 >>

\* C8 witness: b"123456789" was fed in three calls of update under seed
\* 0x1234 and the result is 0x60BE8A00
C8_Witness ==
    /\ h_stage = "final"
    /\ HasherFed = Digits9
    /\ h_updates = 3
    /\ h_seed = << 4660, 0 >>
    /\ h_result = << 35328, 24766 >>

====
